---- MODULE Spec2Model ----
(***************************************************************************)
(* State-machine model of YARBS: the reference-scoped workspaces of App.js *)
(* (React state + handlers), the modification engine of                   *)
(* utils/visualizationUpdater.js and the contig-visibility filter of       *)
(* components/DotPlot.jsx.                                                 *)
(*                                                                         *)
(* Conventions.                                                            *)
(*  - A contig name is the sequence of its "_"-separated tokens:           *)
(*    <<"q1">> is "q1", <<"q1","1">> is "q1_1".  `${query}_1` is           *)
(*    Append(query, "1").                                                  *)
(*  - A JS value that may be undefined is a sequence: <<>> is undefined,   *)
(*    <<v>> is the value v.                                                *)
(*  - One action is one event handler run to completion, followed by the   *)
(*    re-render and the effects React runs after it.  Inside a handler the *)
(*    props and state read are those of the last render (the closure);     *)
(*    functional state updaters are applied in the order they were queued. *)
(*  - Date.now() stamps (lastModified, timestamp) are not modelled.        *)
(***************************************************************************)
EXTENDS Integers, Sequences, FiniteSets, TLC

VARIABLES
    selectedRef,          \* App state: selectedRef ("" before a dataset is loaded)
    referenceWorkspaces,  \* App state: reference name -> workspace
    showSaveDialog,       \* App state: the save/discard/cancel request is open
    pendingRefChange,     \* App state: the reference asked for (<<>> is null)
    originalData,         \* App state: the loaded dataset (<<>> is null)
    data,                 \* App state: the working dataset shown (<<>> is null)
    view,                 \* App state: viewMode, referenceFlipped, zoom, pan, settings
    sessionFile,          \* the session document last exported (<<>> is none)
    lastEvent,            \* the handler that ran last
    dOriginal,            \* engine run: originalData passed to the engine
    dMods,                \* engine run: the modification list passed
    dOrder,               \* engine run: the contigOrder passed
    dWork,                \* engine run: the deep copy being modified
    dPos,                 \* engine run: index of the next modification (forEach)
    explorationMode,      \* App state: exploration (TRUE) or scaffolding mode
    isDragging,           \* DotPlot state: a drag of the plot is under way
    dragStart             \* DotPlot state: pointer position minus pan at the press

vars == <<selectedRef, referenceWorkspaces, showSaveDialog, pendingRefChange,
          originalData, data, view, sessionFile, lastEvent,
          dOriginal, dMods, dOrder, dWork, dPos,
          explorationMode, isDragging, dragStart>>

appVars == <<selectedRef, referenceWorkspaces, showSaveDialog, pendingRefChange,
             originalData, data, view, sessionFile, lastEvent,
             explorationMode, isDragging, dragStart>>

sessionVars == <<view, sessionFile>>

engineVars == <<dOriginal, dMods, dOrder, dWork, dPos>>

pointerVars == <<explorationMode, isDragging, dragStart>>

(***************************************************************************)
(* Bounds of the model                                                     *)
(***************************************************************************)
\* most undo snapshots, over all workspaces, the workspace actions build
MaxHistory == 2
\* longest modification list given to an engine run
MaxRunMods == 3
\* contig length used in the engine runs
RunLength == 4
\* most edits behind a workspace map that is exported as a session
MaxSessionEdits == 2
\* most modifications added beyond the history limit in a long editing run
MaxOverflow == 2
\* most edits behind a workspace map whose plot is drawn
MaxPlotEdits == 2
\* largest display cap tried (the application's default is 500)
MaxCap == 2
\* most camera and pointer events in a run of the view
MaxGestures == 5

(***************************************************************************)
(* Generic helpers                                                         *)
(***************************************************************************)
Range(s) == {s[i] : i \in 1..Len(s)}

\* the least member of a non-empty set of integers
Min(S) == CHOOSE i \in S : \A j \in S : i <= j

\* Array.prototype.findIndex over the indices that match, 1-based; 0 when none
FirstOf(matches) == IF matches = {} THEN 0 ELSE Min(matches)

\* object spread {...base, ...updates}
Spread(base, updates) ==
    [f \in DOMAIN base \cup DOMAIN updates |->
        IF f \in DOMAIN updates THEN updates[f] ELSE base[f]]

(***************************************************************************)
(* DataStore: the loaded dataset (parseCoordinateFiles output)             *)
(***************************************************************************)
Undefined == <<>>

Query(name, length) ==
    [name |-> name, length |-> length, orientation |-> "+",
     isInverted |-> FALSE, isBroken |-> FALSE,
     originalName |-> Undefined, segmentNumber |-> Undefined]

Alignment(ref, query, refStart, refEnd, queryStart, queryEnd, length, tag, identity) ==
    [ref |-> ref, query |-> query, refStart |-> refStart, refEnd |-> refEnd,
     queryStart |-> queryStart, queryEnd |-> queryEnd, length |-> length,
     tag |-> tag, identity |-> identity,
     originalQueryStart |-> Undefined, originalQueryEnd |-> Undefined,
     isInverted |-> FALSE, wasModified |-> FALSE,
     isBrokenAlignment |-> FALSE, isPartial |-> FALSE]

\* The dataset the workspace actions run on: two references, three contigs.
\* q1 has a unique alignment to chrA; q2 has only a repetitive alignment to
\* chrA and a unique one to chrB; q3 has a unique alignment to chrB.
parsedData ==
    [references |-> << [name |-> "chrA", length |-> 20],
                       [name |-> "chrB", length |-> 20] >>,
     queries |-> << Query(<<"q1">>, 10), Query(<<"q2">>, 8), Query(<<"q3">>, 6) >>,
     alignments |-> <<
        Alignment("chrA", <<"q1">>, 1, 4, 2, 5, 3, "unique", 90),
        Alignment("chrA", <<"q2">>, 10, 16, 1, 7, 6, "repetitive", 70),
        Alignment("chrB", <<"q2">>, 0, 8, 0, 8, 8, "unique", 95),
        Alignment("chrB", <<"q3">>, 9, 11, 1, 3, 2, "unique", 85) >>]

RefNames == {parsedData.references[i].name : i \in 1..Len(parsedData.references)}

(***************************************************************************)
(* ModificationEngine: utils/visualizationUpdater.js                       *)
(***************************************************************************)
Invert(q) == [type |-> "invert", query |-> q]
Break(q, p) == [type |-> "break", query |-> q, position |-> p]

\* !x for a possibly-undefined number: undefined and 0 are falsy
Falsy(x) == x = Undefined \/ x[1] = 0

\* data.queries.findIndex(q => q.name === query), 1-based; 0 when absent
QueryIndex(d, query) ==
    FirstOf({i \in 1..Len(d.queries) : d.queries[i].name = query})

HasQuery(d, query) == QueryIndex(d, query) # 0

\* data.alignments.filter(a => a.query === query), and its complement
RECURSIVE AlignmentsOf(_, _)
AlignmentsOf(as, query) ==
    IF as = <<>> THEN <<>>
    ELSE (IF Head(as).query = query THEN <<Head(as)>> ELSE <<>>)
         \o AlignmentsOf(Tail(as), query)

\* a variant of the complement filter that keeps every alignment
AlignmentsKept(as, query) == as

RECURSIVE AlignmentsNotOf(_, _)
AlignmentsNotOf(as, query) ==
    IF as = <<>> THEN <<>>
    ELSE (IF Head(as).query # query THEN <<Head(as)>> ELSE <<>>)
         \o AlignmentsNotOf(Tail(as), query)

\* the body of the alignments.forEach of applyInversion, for a matching alignment
InvertAlignment(a, queryLength) ==
    LET cached == ~Falsy(a.originalQueryStart)
        oStart == IF cached THEN a.originalQueryStart ELSE <<a.queryStart>>
        oEnd == IF cached THEN a.originalQueryEnd ELSE <<a.queryEnd>>
    IN  [a EXCEPT !.originalQueryStart = oStart,
                  !.originalQueryEnd = oEnd,
                  !.queryStart = queryLength - oEnd[1],
                  !.queryEnd = queryLength - oStart[1],
                  !.isInverted = TRUE,
                  !.wasModified = TRUE]

\* a variant that, for a name no contig has, inverts the segments cut from it
applyInversionOfSegments(d, modification) ==
    LET query == modification.query
        qi == QueryIndex(d, query)
    IN  IF qi = 0
        THEN [d EXCEPT
                !.queries =
                    [i \in 1..Len(d.queries) |->
                        IF d.queries[i].originalName = query
                        THEN [d.queries[i] EXCEPT !.orientation = "-"]
                        ELSE d.queries[i]]]
        ELSE [d EXCEPT
                !.alignments =
                    [i \in 1..Len(d.alignments) |->
                        IF d.alignments[i].query = query
                        THEN InvertAlignment(d.alignments[i], d.queries[qi].length)
                        ELSE d.alignments[i]],
                !.queries[qi] =
                    [@ EXCEPT !.orientation = IF @ = "+" THEN "-" ELSE "+",
                              !.isInverted = TRUE]]

applyInversion(d, modification) ==
    LET query == modification.query
        qi == QueryIndex(d, query)
    IN  IF qi = 0 THEN d
        ELSE [d EXCEPT
                !.alignments =
                    [i \in 1..Len(d.alignments) |->
                        IF d.alignments[i].query = query
                        THEN InvertAlignment(d.alignments[i], d.queries[qi].length)
                        ELSE d.alignments[i]],
                !.queries[qi] =
                    [@ EXCEPT !.orientation = IF @ = "+" THEN "-" ELSE "+",
                              !.isInverted = TRUE]]

\* a variant that forgets to shift the end of the right part of a split alignment
BreakAlignmentUnshifted(a, query, position) ==
    IF a.queryEnd <= position
    THEN << [a EXCEPT !.query = Append(query, "1"), !.isBrokenAlignment = TRUE] >>
    ELSE IF a.queryStart >= position
    THEN << [a EXCEPT !.query = Append(query, "2"),
                      !.queryStart = a.queryStart - position,
                      !.queryEnd = a.queryEnd - position,
                      !.isBrokenAlignment = TRUE] >>
    ELSE << [a EXCEPT !.query = Append(query, "1"),
                      !.queryEnd = position,
                      !.isBrokenAlignment = TRUE,
                      !.isPartial = TRUE],
            [a EXCEPT !.query = Append(query, "2"),
                      !.queryStart = 0,
                      !.isBrokenAlignment = TRUE,
                      !.isPartial = TRUE] >>

\* the body of the alignmentsToUpdate.forEach of applyBreak
BreakAlignment(a, query, position) ==
    IF a.queryEnd <= position
    THEN << [a EXCEPT !.query = Append(query, "1"), !.isBrokenAlignment = TRUE] >>
    ELSE IF a.queryStart >= position
    THEN << [a EXCEPT !.query = Append(query, "2"),
                      !.queryStart = a.queryStart - position,
                      !.queryEnd = a.queryEnd - position,
                      !.isBrokenAlignment = TRUE] >>
    ELSE << [a EXCEPT !.query = Append(query, "1"),
                      !.queryEnd = position,
                      !.isBrokenAlignment = TRUE,
                      !.isPartial = TRUE],
            [a EXCEPT !.query = Append(query, "2"),
                      !.queryStart = 0,
                      !.queryEnd = a.queryEnd - position,
                      !.isBrokenAlignment = TRUE,
                      !.isPartial = TRUE] >>

RECURSIVE BreakAlignments(_, _, _)
BreakAlignments(as, query, position) ==
    IF as = <<>> THEN <<>>
    ELSE BreakAlignment(Head(as), query, position)
            \o BreakAlignments(Tail(as), query, position)

applyBreak(d, modification) ==
    LET query == modification.query
        position == modification.position
        qi == QueryIndex(d, query)
    IN  IF qi = 0 THEN d
        ELSE
          LET querySeq == d.queries[qi]
              leftSegment == [querySeq EXCEPT !.name = Append(query, "1"),
                                              !.length = position,
                                              !.isBroken = TRUE,
                                              !.originalName = query,
                                              !.segmentNumber = <<1>>]
              rightSegment == [querySeq EXCEPT !.name = Append(query, "2"),
                                               !.length = querySeq.length - position,
                                               !.isBroken = TRUE,
                                               !.originalName = query,
                                               !.segmentNumber = <<2>>]
              alignmentsToUpdate == AlignmentsOf(d.alignments, query)
              newAlignments == BreakAlignments(alignmentsToUpdate, query, position)
          IN  [d EXCEPT
                 !.queries = SubSeq(d.queries, 1, qi - 1)
                                \o <<leftSegment, rightSegment>>
                                \o SubSeq(d.queries, qi + 1, Len(d.queries)),
                 !.alignments = AlignmentsNotOf(d.alignments, query)
                                \o newAlignments]

\* a sort key that ignores the manual order
OrderKeyIgnored(contigOrder, name) ==
    999999

\* contigOrder[name] !== undefined ? contigOrder[name] : 999999
OrderKey(contigOrder, name) ==
    IF name \in DOMAIN contigOrder THEN contigOrder[name] ELSE 999999

\* Array.prototype.sort with (a, b) => orderA - orderB: a stable sort
RECURSIVE SortByOrder(_, _)
SortByOrder(queries, contigOrder) ==
    IF queries = <<>> THEN <<>>
    ELSE LET sorted == SortByOrder(SubSeq(queries, 1, Len(queries) - 1), contigOrder)
             x == queries[Len(queries)]
             k == OrderKey(contigOrder, x.name)
             n == Cardinality({i \in 1..Len(sorted) :
                                 OrderKey(contigOrder, sorted[i].name) <= k})
         IN  SubSeq(sorted, 1, n) \o <<x>> \o SubSeq(sorted, n + 1, Len(sorted))

applyContigReordering(d, contigOrder) ==
    [d EXCEPT !.queries = SortByOrder(d.queries, contigOrder)]

\* the switch of applyModificationsToVisualization, for one modification
ApplyOne(d, modification) ==
    CASE modification.type = "invert" -> applyInversion(d, modification)
      [] modification.type = "break" -> applyBreak(d, modification)
      [] OTHER -> d

\* modifications.forEach: each round works on the dataset the round before
\* left behind
RECURSIVE ApplyAll(_, _)
ApplyAll(d, modifications) ==
    IF modifications = <<>> THEN d
    ELSE CHOOSE result \in {ApplyAll(next, Tail(modifications)) :
                               next \in {ApplyOne(d, Head(modifications))}} : TRUE

applyModificationsToVisualization(original, modifications, contigOrder) ==
    LET d == ApplyAll(original, modifications)
    IN  IF DOMAIN contigOrder # {} THEN applyContigReordering(d, contigOrder) ELSE d

(***************************************************************************)
(* WorkspaceManager: App.js.  A handler is a function of                   *)
(*   prev - the referenceWorkspaces its queued updaters are applied to,    *)
(*   rw   - the referenceWorkspaces of the render whose closure it reads,  *)
(*   sel  - the selectedRef of that render.                                *)
(***************************************************************************)
\* the useState defaults of the view; minUniqueRatio is in percent, zoom in
\* thousandths (1000 is the zoom 1)
defaultView ==
    [viewMode |-> "directionality",
     referenceFlipped |-> TRUE,
     zoom |-> 1000,
     pan |-> [x |-> 0, y |-> 0],
     settings |-> [showRepetitive |-> TRUE,
                   showAllAlignments |-> TRUE,
                   minAlignmentLength |-> 0,
                   minUniqueRatio |-> 5,
                   minContigSize |-> 30000,
                   lineThickness |-> 3,
                   labelFontSize |-> 14,
                   colors |-> "default"]]

\* history: [...workspace.history, snapshot].slice(-50)
HistoryLimit == 50

EmptyMap == [x \in {} |-> 0]

\* a variant that keeps the oldest n entries
FirstN(s, n) == IF Len(s) <= n THEN s ELSE SubSeq(s, 1, n)

LastN(s, n) == IF Len(s) <= n THEN s ELSE SubSeq(s, Len(s) - n + 1, Len(s))

NewWorkspace(contigOrder) ==
    [contigOrder |-> contigOrder,
     modifications |-> <<>>,
     chromosomeGroups |-> EmptyMap,
     uninformativeContigs |-> {},
     selectedContigs |-> <<>>,
     saved |-> TRUE,
     history |-> <<>>]

getWorkspace(rw, refName) ==
    IF refName \in DOMAIN rw THEN rw[refName] ELSE NewWorkspace(EmptyMap)

\* a variant that spreads the saved flag over every workspace of the map
updateWorkspaceAll(prev, rw, refName, updates) ==
    LET base == IF refName \in DOMAIN prev
                THEN Spread(getWorkspace(rw, refName), prev[refName])
                ELSE getWorkspace(rw, refName)
        new == Spread(Spread(base, updates), [saved |-> FALSE])
    IN  [r \in DOMAIN prev \cup {refName} |->
            IF r = refName THEN new ELSE Spread(prev[r], [saved |-> FALSE])]

updateWorkspace(prev, rw, refName, updates) ==
    LET base == IF refName \in DOMAIN prev
                THEN Spread(getWorkspace(rw, refName), prev[refName])
                ELSE getWorkspace(rw, refName)
        new == Spread(Spread(base, updates), [saved |-> FALSE])
    IN  [r \in DOMAIN prev \cup {refName} |-> IF r = refName THEN new ELSE prev[r]]

\* the five fields a snapshot holds
Snapshot(workspace) ==
    [modifications |-> workspace.modifications,
     chromosomeGroups |-> workspace.chromosomeGroups,
     contigOrder |-> workspace.contigOrder,
     uninformativeContigs |-> workspace.uninformativeContigs,
     selectedContigs |-> workspace.selectedContigs]

saveToHistory(prev, rw, sel) ==
    IF sel = "" THEN prev
    ELSE LET workspace == getWorkspace(rw, sel)
         IN  updateWorkspace(prev, rw, sel,
                [history |-> LastN(Append(workspace.history, Snapshot(workspace)),
                                   HistoryLimit)])

\* a variant of undo that restores the edits but not the two contig sets
handleUndoPartial(prev, rw, sel) ==
    LET history == getWorkspace(rw, sel).history
    IN  IF sel = "" \/ Len(history) = 0 THEN prev
        ELSE LET previousState == history[Len(history)]
             IN  updateWorkspace(prev, rw, sel,
                    [modifications |-> previousState.modifications,
                     chromosomeGroups |-> previousState.chromosomeGroups,
                     contigOrder |-> previousState.contigOrder,
                     history |-> SubSeq(history, 1, Len(history) - 1)])

handleUndo(prev, rw, sel) ==
    LET history == getWorkspace(rw, sel).history
    IN  IF sel = "" \/ Len(history) = 0 THEN prev
        ELSE LET previousState == history[Len(history)]
             IN  updateWorkspace(prev, rw, sel,
                    [modifications |-> previousState.modifications,
                     chromosomeGroups |-> previousState.chromosomeGroups,
                     contigOrder |-> previousState.contigOrder,
                     uninformativeContigs |-> previousState.uninformativeContigs,
                     selectedContigs |-> previousState.selectedContigs,
                     history |-> SubSeq(history, 1, Len(history) - 1)])

addModification(prev, rw, sel, modification) ==
    IF sel = "" THEN prev
    ELSE updateWorkspace(saveToHistory(prev, rw, sel), rw, sel,
            [modifications |-> Append(getWorkspace(rw, sel).modifications, modification)])

\* modifications.filter((_, i) => i !== index), index counted from 0
RemoveAt(modifications, index) ==
    IF index < 0 \/ index >= Len(modifications) THEN modifications
    ELSE SubSeq(modifications, 1, index) \o
         SubSeq(modifications, index + 2, Len(modifications))

removeModification(prev, rw, sel, index) ==
    IF sel = "" THEN prev
    ELSE updateWorkspace(saveToHistory(prev, rw, sel), rw, sel,
            [modifications |-> RemoveAt(getWorkspace(rw, sel).modifications, index)])

NewGroup(contigs, sel) ==
    [contigs |-> contigs,
     order |-> [i \in 1..Len(contigs) |-> i - 1],
     visible |-> TRUE,
     createdOn |-> sel]

createChromosomeGroup(prev, rw, sel, groupName, contigs) ==
    IF sel = "" THEN prev
    ELSE LET chromosomeGroups == getWorkspace(rw, sel).chromosomeGroups
         IN  updateWorkspace(saveToHistory(prev, rw, sel), rw, sel,
                [chromosomeGroups |->
                    [g \in DOMAIN chromosomeGroups \cup {groupName} |->
                        IF g = groupName THEN NewGroup(contigs, sel)
                        ELSE chromosomeGroups[g]]])

deleteChromosomeGroup(prev, rw, sel, groupName) ==
    IF sel = "" THEN prev
    ELSE LET chromosomeGroups == getWorkspace(rw, sel).chromosomeGroups
         IN  updateWorkspace(saveToHistory(prev, rw, sel), rw, sel,
                [chromosomeGroups |->
                    [g \in DOMAIN chromosomeGroups \ {groupName} |-> chromosomeGroups[g]]])

updateContigOrder(prev, rw, sel, newOrder) ==
    IF sel = "" THEN prev
    ELSE updateWorkspace(saveToHistory(prev, rw, sel), rw, sel, [contigOrder |-> newOrder])

setSelectedContigsForWorkspace(prev, rw, sel, contigs) ==
    IF sel = "" THEN prev
    ELSE updateWorkspace(prev, rw, sel, [selectedContigs |-> contigs])

setUninformativeContigsForWorkspace(prev, rw, sel, contigs) ==
    IF sel = "" THEN prev
    ELSE updateWorkspace(prev, rw, sel, [uninformativeContigs |-> contigs])

\* the contig order computed at load, on discard and on reset all:
\* the contigs with an alignment to refName, numbered in query-list order
RECURSIVE NumberContigs(_, _, _)
NumberContigs(queries, contigsInRef, orderIndex) ==
    IF queries = <<>> THEN EmptyMap
    ELSE LET name == Head(queries).name
         IN  IF name \in contigsInRef
             THEN LET rest == NumberContigs(Tail(queries), contigsInRef, orderIndex + 1)
                  IN  [n \in DOMAIN rest \cup {name} |->
                         IF n = name THEN orderIndex ELSE rest[n]]
             ELSE NumberContigs(Tail(queries), contigsInRef, orderIndex)

initialOrder(d, refName) ==
    IF d = Undefined THEN EmptyMap
    ELSE LET contigsInRef == {d.alignments[i].query :
                                i \in {j \in 1..Len(d.alignments) :
                                         d.alignments[j].ref = refName}}
         IN  NumberContigs(d.queries, contigsInRef, 0)

\* a variant of save that also clears the undo history
saveWorkspaceClearingHistory(prev, sel) ==
    IF sel = "" THEN prev
    ELSE [r \in DOMAIN prev \cup {sel} |->
            IF r = sel
            THEN Spread(IF sel \in DOMAIN prev THEN prev[sel] ELSE EmptyMap,
                        [saved |-> TRUE, history |-> <<>>])
            ELSE prev[r]]

saveWorkspace(prev, sel) ==
    IF sel = "" THEN prev
    ELSE [r \in DOMAIN prev \cup {sel} |->
            IF r = sel
            THEN Spread(IF sel \in DOMAIN prev THEN prev[sel] ELSE EmptyMap,
                        [saved |-> TRUE])
            ELSE prev[r]]

\* a variant that resets the edits but keeps the order and the undo history
discardWorkspaceKeeping(prev, sel, original) ==
    IF sel = "" THEN prev
    ELSE [r \in DOMAIN prev \cup {sel} |->
            IF r = sel
            THEN Spread(NewWorkspace(initialOrder(original, sel)),
                        [contigOrder |-> getWorkspace(prev, sel).contigOrder,
                         history |-> getWorkspace(prev, sel).history])
            ELSE prev[r]]

discardWorkspace(prev, sel, original) ==
    IF sel = "" THEN prev
    ELSE [r \in DOMAIN prev \cup {sel} |->
            IF r = sel THEN NewWorkspace(initialOrder(original, sel)) ELSE prev[r]]

\* a variant of reset that leaves the undo history in place
resetAllModificationsKeepingHistory(prev, rw, sel, original) ==
    IF sel = "" THEN prev
    ELSE updateWorkspace(prev, rw, sel,
            [modifications |-> <<>>,
             selectedContigs |-> <<>>,
             chromosomeGroups |-> EmptyMap,
             contigOrder |-> initialOrder(original, sel),
             uninformativeContigs |-> {},
             saved |-> TRUE])

resetAllModifications(prev, rw, sel, original) ==
    IF sel = "" THEN prev
    ELSE updateWorkspace(prev, rw, sel,
            [modifications |-> <<>>,
             selectedContigs |-> <<>>,
             chromosomeGroups |-> EmptyMap,
             contigOrder |-> initialOrder(original, sel),
             uninformativeContigs |-> {},
             history |-> <<>>,
             saved |-> TRUE])

\* finishDataLoad without a session file: one workspace per reference
initialWorkspaces(d) ==
    [r \in {d.references[i].name : i \in 1..Len(d.references)} |->
        NewWorkspace(initialOrder(d, r))]

\* an effect that applies the modifications of every workspace, those of
\* sel last
DerivedDataOfAll(original, rw, sel) ==
    IF original = Undefined THEN Undefined
    ELSE LET workspace == getWorkspace(rw, sel)
             others == {r \in DOMAIN rw : r # sel /\ Len(rw[r].modifications) > 0}
             modifications ==
                 (IF others = {} THEN <<>>
                  ELSE rw[CHOOSE r \in others : TRUE].modifications)
                 \o workspace.modifications
         IN  IF Len(modifications) > 0
             THEN applyModificationsToVisualization(original, modifications,
                                                    workspace.contigOrder)
             ELSE original

\* the effect that re-derives the working dataset after a render
DerivedData(original, rw, sel) ==
    IF original = Undefined THEN Undefined
    ELSE LET workspace == getWorkspace(rw, sel)
         IN  IF Len(workspace.modifications) > 0
             THEN applyModificationsToVisualization(original, workspace.modifications,
                                                    workspace.contigOrder)
             ELSE original

\* onAddModifications, the batch callback ControlPanel.handleInvertContig expects
\* from App: one history entry and one update for the whole list
addModifications(prev, rw, sel, newModifications) ==
    IF sel = "" THEN prev
    ELSE updateWorkspace(saveToHistory(prev, rw, sel), rw, sel,
            [modifications |-> getWorkspace(rw, sel).modifications \o newModifications])

(***************************************************************************)
(* ControlPanel gestures (components/ControlPanel.jsx)                     *)
(***************************************************************************)
\* modifications.find(m => m.type === 'invert' && m.query === contigName), then
\* modifications.indexOf: the 0-based index of the first inversion, -1 if none
ExistingInversion(modifications, contigName) ==
    FirstOf({i \in 1..Len(modifications) :
                modifications[i].type = "invert" /\ modifications[i].query = contigName}) - 1

\* the contigs of the selection that are not inverted yet, as new inversions
RECURSIVE NewInversions(_, _)
NewInversions(selectedContigs, modifications) ==
    IF selectedContigs = <<>> THEN <<>>
    ELSE (IF ExistingInversion(modifications, Head(selectedContigs)) = -1
          THEN << Invert(Head(selectedContigs)) >> ELSE <<>>)
         \o NewInversions(Tail(selectedContigs), modifications)

\* the indices marked for removal, in selection order
RECURSIVE IndicesToRemove(_, _)
IndicesToRemove(selectedContigs, modifications) ==
    IF selectedContigs = <<>> THEN <<>>
    ELSE (IF ExistingInversion(modifications, Head(selectedContigs)) # -1
          THEN << ExistingInversion(modifications, Head(selectedContigs)) >> ELSE <<>>)
         \o IndicesToRemove(Tail(selectedContigs), modifications)

\* indicesToRemove.sort((a, b) => b - a)
RECURSIVE SortDescending(_)
SortDescending(s) ==
    IF s = <<>> THEN <<>>
    ELSE LET m == CHOOSE i \in 1..Len(s) : \A j \in 1..Len(s) : s[j] <= s[i]
         IN  <<s[m]>> \o SortDescending(SubSeq(s, 1, m - 1) \o SubSeq(s, m + 1, Len(s)))

\* a variant in which every removal reads the workspace the previous one left
RECURSIVE RemoveEachFresh(_, _, _, _)
RemoveEachFresh(prev, rw, sel, indices) ==
    IF indices = <<>> THEN prev
    ELSE LET next == removeModification(prev, prev, sel, Head(indices))
         IN  RemoveEachFresh(next, next, sel, Tail(indices))

\* indices.forEach(index => onRemoveModification(index)), all in one closure
RECURSIVE RemoveEach(_, _, _, _)
RemoveEach(prev, rw, sel, indices) ==
    IF indices = <<>> THEN prev
    ELSE RemoveEach(removeModification(prev, rw, sel, Head(indices)), rw, sel, Tail(indices))

handleInvertContig(prev, rw, sel) ==
    LET workspace == getWorkspace(rw, sel)
        selectedContigs == workspace.selectedContigs
        modifications == workspace.modifications
        newModifications == NewInversions(selectedContigs, modifications)
        indicesToRemove == IndicesToRemove(selectedContigs, modifications)
        removed == RemoveEach(prev, rw, sel, SortDescending(indicesToRemove))
    IN  IF Len(selectedContigs) = 0 THEN prev
        ELSE IF Len(newModifications) > 0
             THEN addModifications(removed, rw, sel, newModifications)
             ELSE removed

(***************************************************************************)
(* Inputs of the workspace actions                                         *)
(***************************************************************************)
ModInputs ==
    { Break(<<"q1">>, 0) }

SelectionInputs == { << <<"q1">>, <<"q2">> >> }

UninformativeInputs == { { <<"q3">> } }

GroupNameInputs == { "g1" }

GroupContigInputs == { << <<"q2">>, <<"q3">> >> }

\* a new order handed to onContigOrderChange: the default order reversed
ReversedOrder(order) ==
    [n \in DOMAIN order |-> Cardinality(DOMAIN order) - 1 - order[n]]

(***************************************************************************)
(* Actions: one per handler                                                *)
(***************************************************************************)
Loaded == data # Undefined

Workspace == getWorkspace(referenceWorkspaces, selectedRef)

RECURSIVE SumHistory(_, _)
SumHistory(rw, refs) ==
    IF refs = {} THEN 0
    ELSE LET r == CHOOSE x \in refs : TRUE
         IN  Len(rw[r].history) + SumHistory(rw, refs \ {r})

\* the model's bound on history growth
HistoryRoom == SumHistory(referenceWorkspaces, DOMAIN referenceWorkspaces) < MaxHistory

\* the controls are reachable: a dataset is shown and the modal dialog is closed
Interactive == Loaded /\ ~showSaveDialog

\* a handler that only queues workspace updates, then the re-render and effect
Commit(newWorkspaces, name) ==
    /\ referenceWorkspaces' = newWorkspaces
    /\ data' = DerivedData(originalData, newWorkspaces, selectedRef)
    /\ lastEvent' = [name |-> name]
    /\ UNCHANGED <<selectedRef, showSaveDialog, pendingRefChange, originalData>>
    /\ UNCHANGED sessionVars
    /\ UNCHANGED engineVars
    /\ UNCHANGED pointerVars

LoadDataset ==
    /\ ~showSaveDialog
    /\ originalData' = parsedData
    /\ referenceWorkspaces' = initialWorkspaces(parsedData)
    /\ selectedRef' = parsedData.references[1].name
    /\ data' = DerivedData(parsedData, referenceWorkspaces', selectedRef')
    /\ lastEvent' = [name |-> "finishDataLoad"]
    /\ UNCHANGED <<showSaveDialog, pendingRefChange>>
    /\ UNCHANGED sessionVars
    /\ UNCHANGED engineVars
    /\ UNCHANGED pointerVars

ResetToLoadPage ==
    /\ Interactive
    /\ originalData' = Undefined
    /\ data' = Undefined
    /\ selectedRef' = ""
    /\ referenceWorkspaces' = EmptyMap
    /\ view' = [view EXCEPT !.zoom = 1000, !.pan = [x |-> 0, y |-> 0]]
    /\ lastEvent' = [name |-> "resetToLoadPage"]
    /\ UNCHANGED <<showSaveDialog, pendingRefChange, sessionFile>>
    /\ UNCHANGED engineVars
    /\ UNCHANGED pointerVars

AddModification ==
    /\ Interactive
    /\ HistoryRoom
    /\ \E modification \in ModInputs :
         Commit(addModification(referenceWorkspaces, referenceWorkspaces, selectedRef,
                                modification), "addModification")

RemoveModification ==
    /\ Interactive
    /\ HistoryRoom
    /\ \E index \in 0..(Len(Workspace.modifications) - 1) :
         Commit(removeModification(referenceWorkspaces, referenceWorkspaces, selectedRef,
                                   index), "removeModification")

CreateChromosomeGroup ==
    /\ Interactive
    /\ HistoryRoom
    /\ \E groupName \in GroupNameInputs, contigs \in GroupContigInputs :
         Commit(createChromosomeGroup(referenceWorkspaces, referenceWorkspaces,
                                      selectedRef, groupName, contigs),
                "createChromosomeGroup")

DeleteChromosomeGroup ==
    /\ Interactive
    /\ HistoryRoom
    /\ \E groupName \in DOMAIN Workspace.chromosomeGroups :
         Commit(deleteChromosomeGroup(referenceWorkspaces, referenceWorkspaces,
                                      selectedRef, groupName),
                "deleteChromosomeGroup")

UpdateContigOrder ==
    /\ Interactive
    /\ HistoryRoom
    /\ Commit(updateContigOrder(referenceWorkspaces, referenceWorkspaces, selectedRef,
                                ReversedOrder(Workspace.contigOrder)),
              "updateContigOrder")

SetSelectedContigs ==
    /\ Interactive
    /\ \E contigs \in SelectionInputs :
         Commit(setSelectedContigsForWorkspace(referenceWorkspaces, referenceWorkspaces,
                                               selectedRef, contigs),
                "setSelectedContigs")

SetUninformativeContigs ==
    /\ Interactive
    /\ \E contigs \in UninformativeInputs :
         Commit(setUninformativeContigsForWorkspace(referenceWorkspaces,
                                                    referenceWorkspaces,
                                                    selectedRef, contigs),
                "setUninformativeContigs")

InvertContig ==
    /\ Interactive
    /\ HistoryRoom
    /\ Commit(handleInvertContig(referenceWorkspaces, referenceWorkspaces, selectedRef),
              "handleInvertContig")

\* the Undo button is rendered only while the history is non-empty
Undo ==
    /\ Interactive
    /\ Len(Workspace.history) > 0
    /\ Commit(handleUndo(referenceWorkspaces, referenceWorkspaces, selectedRef),
              "handleUndo")

\* the Reset All button is rendered only while there are modifications
ResetAll ==
    /\ Interactive
    /\ Len(Workspace.modifications) > 0
    /\ Commit(resetAllModifications(referenceWorkspaces, referenceWorkspaces,
                                    selectedRef, originalData),
              "resetAllModifications")

\* a variant of the reference select that switches without asking
ReferenceChangeDirect ==
    /\ Interactive
    /\ \E newRef \in RefNames :
         /\ newRef # selectedRef
         /\ selectedRef' = newRef
         /\ data' = DerivedData(originalData, referenceWorkspaces, newRef)
    /\ lastEvent' = [name |-> "handleReferenceChange"]
    /\ UNCHANGED <<pendingRefChange, showSaveDialog, referenceWorkspaces, originalData>>
    /\ UNCHANGED sessionVars
    /\ UNCHANGED engineVars
    /\ UNCHANGED pointerVars

\* the reference select of the control panel
ReferenceChange ==
    /\ Interactive
    /\ \E newRef \in RefNames :
         /\ newRef # selectedRef
         /\ IF ~Workspace.saved
            THEN /\ pendingRefChange' = <<newRef>>
                 /\ showSaveDialog' = TRUE
                 /\ UNCHANGED <<selectedRef, data>>
            ELSE /\ selectedRef' = newRef
                 /\ data' = DerivedData(originalData, referenceWorkspaces, newRef)
                 /\ UNCHANGED <<pendingRefChange, showSaveDialog>>
    /\ lastEvent' = [name |-> "handleReferenceChange"]
    /\ UNCHANGED <<referenceWorkspaces, originalData>>
    /\ UNCHANGED sessionVars
    /\ UNCHANGED engineVars
    /\ UNCHANGED pointerVars

\* the Save and Discard buttons of the dialog
ConfirmReferenceChange ==
    /\ showSaveDialog
    /\ \E action \in {"save", "discard"} :
         /\ referenceWorkspaces' =
               IF action = "save" THEN saveWorkspace(referenceWorkspaces, selectedRef)
               ELSE discardWorkspace(referenceWorkspaces, selectedRef, originalData)
         /\ lastEvent' = [name |-> action]
    /\ selectedRef' = IF pendingRefChange # <<>> THEN pendingRefChange[1] ELSE selectedRef
    /\ showSaveDialog' = FALSE
    /\ pendingRefChange' = <<>>
    /\ data' = DerivedData(originalData, referenceWorkspaces', selectedRef')
    /\ UNCHANGED originalData
    /\ UNCHANGED sessionVars
    /\ UNCHANGED engineVars
    /\ UNCHANGED pointerVars

\* a variant of Cancel that closes the dialog and marks the workspace saved
CancelReferenceChangeSaving ==
    /\ showSaveDialog
    /\ showSaveDialog' = FALSE
    /\ pendingRefChange' = <<>>
    /\ referenceWorkspaces' = saveWorkspace(referenceWorkspaces, selectedRef)
    /\ lastEvent' = [name |-> "cancel"]
    /\ UNCHANGED <<selectedRef, originalData, data>>
    /\ UNCHANGED sessionVars
    /\ UNCHANGED engineVars
    /\ UNCHANGED pointerVars

\* the Cancel button of the dialog
CancelReferenceChange ==
    /\ showSaveDialog
    /\ showSaveDialog' = FALSE
    /\ pendingRefChange' = <<>>
    /\ lastEvent' = [name |-> "cancel"]
    /\ UNCHANGED <<selectedRef, referenceWorkspaces, originalData, data>>
    /\ UNCHANGED sessionVars
    /\ UNCHANGED engineVars
    /\ UNCHANGED pointerVars

\* useState(true) for the mode, no drag under way
PointerIdle ==
    /\ explorationMode = TRUE
    /\ isDragging = FALSE
    /\ dragStart = [x |-> 0, y |-> 0]

EngineIdle ==
    /\ dOriginal = Undefined
    /\ dMods = <<>>
    /\ dOrder = EmptyMap
    /\ dWork = Undefined
    /\ dPos = 0

Init ==
    /\ selectedRef = ""
    /\ referenceWorkspaces = EmptyMap
    /\ showSaveDialog = FALSE
    /\ pendingRefChange = <<>>
    /\ originalData = Undefined
    /\ data = Undefined
    /\ view = defaultView
    /\ sessionFile = Undefined
    /\ lastEvent = [name |-> "mount"]
    /\ EngineIdle
    /\ PointerIdle

Next ==
    \/ LoadDataset
    \/ ResetToLoadPage
    \/ AddModification
    \/ RemoveModification
    \/ CreateChromosomeGroup
    \/ DeleteChromosomeGroup
    \/ UpdateContigOrder
    \/ SetSelectedContigs
    \/ SetUninformativeContigs
    \/ InvertContig
    \/ Undo
    \/ ResetAll
    \/ ReferenceChange
    \/ ConfirmReferenceChange
    \/ CancelReferenceChange

Spec == Init /\ [][Next]_vars

(***************************************************************************)
(* Properties of the workspace manager                                     *)
(***************************************************************************)
\* the five undoable fields of a workspace, then those and the history
FiveFields(workspace) == Snapshot(workspace)

SixFields(workspace) == Spread(Snapshot(workspace), [history |-> workspace.history])

\* the operations the undo contract counts as mutating
MutatingOperations ==
    { "addModification", "removeModification", "createChromosomeGroup",
      "deleteChromosomeGroup", "updateContigOrder", "setSelectedContigs",
      "setUninformativeContigs" }

\* C1, for k = 1: one mutating operation followed by one undo gives back the
\* five fields (modifications, chromosomeGroups, contigOrder,
\* uninformativeContigs, selectedContigs) the workspace had before the operation
C1_UndoRestoresFiveFields ==
    [][lastEvent'.name \in MutatingOperations =>
          FiveFields(getWorkspace(handleUndo(referenceWorkspaces', referenceWorkspaces',
                                             selectedRef'), selectedRef'))
            = FiveFields(Workspace)]_vars

\* C2: a reference change requested while the workspace is unsaved opens the
\* decision dialog and keeps the active reference; while the workspace is
\* unsaved and no new dataset is loaded the active reference becomes another
\* reference only by the dialog's save or discard, and then it is the requested
\* one; cancel keeps it
C2_SwitchWaitsForDecision ==
    [][/\ (lastEvent'.name = "handleReferenceChange" /\ ~Workspace.saved)
            => /\ showSaveDialog'
               /\ pendingRefChange' # <<>>
               /\ pendingRefChange'[1] # selectedRef
               /\ selectedRef' = selectedRef
       /\ (/\ selectedRef' # selectedRef
           /\ selectedRef' # ""
           /\ lastEvent'.name # "finishDataLoad"
           /\ ~Workspace.saved)
            => /\ lastEvent'.name \in {"save", "discard"}
               /\ showSaveDialog
               /\ pendingRefChange = <<selectedRef'>>
       /\ lastEvent'.name = "cancel"
            => selectedRef' = selectedRef /\ ~showSaveDialog']_vars

\* a request is waiting for its decision
C2_Witness ==
    /\ lastEvent.name = "handleReferenceChange"
    /\ showSaveDialog
    /\ pendingRefChange = <<"chrB">>
    /\ selectedRef = "chrA"
    /\ ~Workspace.saved

Rejected(d, modification) ==
    \/ ~HasQuery(d, modification.query)
    \/ /\ modification.type = "break"
       /\ ~(0 < modification.position
            /\ modification.position < d.queries[QueryIndex(d, modification.query)].length)

\* C7: adding a rejected modification leaves modifications, groups, order,
\* uninformative set, selection and history of the workspace as they were
C7_RejectedEditWritesNothing ==
    [][\A modification \in ModInputs :
          (/\ lastEvent'.name = "addModification"
           /\ Rejected(data, modification)
           /\ referenceWorkspaces' = addModification(referenceWorkspaces,
                                                     referenceWorkspaces,
                                                     selectedRef, modification))
          => SixFields(referenceWorkspaces'[selectedRef]) = SixFields(Workspace)]_vars

\* the operations that act on the workspace of the selected reference
WorkspaceOperations ==
    MutatingOperations \cup
    { "handleInvertContig", "handleUndo", "resetAllModifications", "save", "discard" }

\* C9: an operation on the workspace of the selected reference leaves the
\* workspace of every other reference as it was, saved flag and history included
C9_OtherWorkspacesUntouched ==
    [][lastEvent'.name \in WorkspaceOperations =>
          \A other \in DOMAIN referenceWorkspaces \ {selectedRef} :
             /\ other \in DOMAIN referenceWorkspaces'
             /\ referenceWorkspaces'[other] = referenceWorkspaces[other]]_vars

\* an operation has acted on chrA while the workspace of chrB holds edits
C9_Witness ==
    /\ lastEvent.name \in MutatingOperations
    /\ selectedRef = "chrA"
    /\ "chrB" \in DOMAIN referenceWorkspaces
    /\ Len(referenceWorkspaces["chrB"].history) > 0
    /\ Len(referenceWorkspaces["chrA"].history) > 0

\* the contigs with an alignment to refName, each numbered by how many of them
\* come before it in the query list
DefaultOrder(d, refName) ==
    LET aligned == {q \in Range(d.queries) :
                       \E a \in Range(d.alignments) : a.ref = refName /\ a.query = q.name}
        names == {q.name : q \in aligned}
    IN  [n \in names |->
            Cardinality({m \in names : QueryIndex(d, m) < QueryIndex(d, n)})]

\* C10: discard in the decision dialog leaves the workspace of the reference
\* that was selected with the default order and with empty modifications,
\* groups, uninformative set, selection and history
C10_DiscardGivesDefault ==
    [][lastEvent'.name = "discard" =>
          LET workspace == referenceWorkspaces'[selectedRef]
          IN  /\ workspace.contigOrder = DefaultOrder(originalData, selectedRef)
              /\ workspace.modifications = <<>>
              /\ workspace.chromosomeGroups = EmptyMap
              /\ workspace.uninformativeContigs = {}
              /\ workspace.selectedContigs = <<>>
              /\ workspace.history = <<>>]_vars

\* the edits of chrA have been discarded on the way to chrB
C10_Witness ==
    /\ lastEvent.name = "discard"
    /\ selectedRef = "chrB"
    /\ referenceWorkspaces["chrA"].history = <<>>
    /\ referenceWorkspaces["chrA"].saved


(***************************************************************************)
(* Engine runs: applyModificationsToVisualization on drawn inputs, one     *)
(* modification of the forEach per step, the reordering last               *)
(***************************************************************************)
\* a dataset with the contig q1 of length RunLength, aligned to chrA over
\* [queryStart, queryEnd] and over [1, RunLength - 1], and a second contig q2
RunDataset(queryStart, queryEnd) ==
    [references |-> << [name |-> "chrA", length |-> 20] >>,
     queries |-> << Query(<<"q1">>, RunLength), Query(<<"q2">>, 3) >>,
     alignments |-> <<
        Alignment("chrA", <<"q1">>, 1, 1 + queryEnd - queryStart, queryStart, queryEnd,
                  queryEnd - queryStart, "unique", 90),
        Alignment("chrA", <<"q1">>, 14, 12 + RunLength, 1, RunLength - 1,
                  RunLength - 2, "unique", 85),
        Alignment("chrA", <<"q2">>, 10, 12, 0, 2, 2, "unique", 80) >>]

RunDatasets ==
    {RunDataset(c[1], c[2]) :
        c \in {x \in (0..RunLength) \X (0..RunLength) : x[1] < x[2]}}

\* inversions and breaks of q1 (positions 0 and RunLength are outside the
\* contig's open interval), an inversion of a segment, an unknown contig
RunMods ==
    { Invert(<<"q1">>), Break(<<"q1">>, 0), Break(<<"q1">>, 2),
      Break(<<"q1">>, RunLength), Invert(<<"q1", "2">>), Invert(<<"zz">>) }

RECURSIVE ModLists(_)
ModLists(n) ==
    IF n = 0 THEN { <<>> }
    ELSE ModLists(n - 1) \cup
         {Append(l, m) : l \in {x \in ModLists(n - 1) : Len(x) = n - 1}, m \in RunMods}

RunOrders == { EmptyMap, (<<"q2">> :> 0) @@ (<<"q1">> :> 1) }

AppIdle ==
    /\ selectedRef = ""
    /\ referenceWorkspaces = EmptyMap
    /\ showSaveDialog = FALSE
    /\ pendingRefChange = <<>>
    /\ originalData = Undefined
    /\ data = Undefined
    /\ view = defaultView
    /\ sessionFile = Undefined
    /\ lastEvent = [name |-> "mount"]
    /\ PointerIdle

\* the call: the deep copy of originalData is taken
InitEngine ==
    /\ AppIdle
    /\ dOriginal \in RunDatasets
    /\ dMods \in ModLists(MaxRunMods)
    /\ dOrder \in RunOrders
    /\ dWork = dOriginal
    /\ dPos = 0

\* a variant without the deep copy (const data = originalData): the rounds
\* write to the object the caller passed
WritesToOriginalData == TRUE

\* const data = JSON.parse(JSON.stringify(originalData)): the rounds write to
\* an object of their own, a write to data is not a write to originalData
WritesReachOriginal == FALSE

\* a variant of the round that walks the list from its end
ApplyModificationBackwards ==
    /\ dPos < Len(dMods)
    /\ dWork' = ApplyOne(dWork, dMods[Len(dMods) - dPos])
    /\ dOriginal' = IF WritesReachOriginal THEN dWork' ELSE dOriginal
    /\ dPos' = dPos + 1
    /\ UNCHANGED <<dMods, dOrder>>
    /\ UNCHANGED appVars

\* one round of modifications.forEach; applyInversion and applyBreak write to
\* the object they are given
ApplyModification ==
    /\ dPos < Len(dMods)
    /\ dWork' = ApplyOne(dWork, dMods[dPos + 1])
    /\ dOriginal' = IF WritesReachOriginal THEN dWork' ELSE dOriginal
    /\ dPos' = dPos + 1
    /\ UNCHANGED <<dMods, dOrder>>
    /\ UNCHANGED appVars

\* after the loop: the manual order is applied in place and the data returned
ApplyOrder ==
    /\ dPos = Len(dMods)
    /\ dWork' = IF DOMAIN dOrder # {} THEN applyContigReordering(dWork, dOrder) ELSE dWork
    /\ dOriginal' = IF WritesReachOriginal THEN dWork' ELSE dOriginal
    /\ dPos' = dPos + 1
    /\ UNCHANGED <<dMods, dOrder>>
    /\ UNCHANGED appVars

\* the caller derives again from the same originalData, list and order (the
\* effect of App runs the function anew each time): a new deep copy is taken
DeriveAgain ==
    /\ dPos = Len(dMods) + 1
    /\ dWork' = dOriginal
    /\ dPos' = 0
    /\ lastEvent' = [name |-> "applyModificationsToVisualization"]
    /\ UNCHANGED <<dOriginal, dMods, dOrder>>
    /\ UNCHANGED <<selectedRef, referenceWorkspaces, showSaveDialog, pendingRefChange,
                   originalData, data>>
    /\ UNCHANGED sessionVars
    /\ UNCHANGED pointerVars

NextEngine ==
    \/ ApplyModification
    \/ ApplyOrder
    \/ DeriveAgain

SpecEngine == InitEngine /\ [][NextEngine]_vars

\* the whole run is the function the workspace actions use
EngineRunIsTheFunction ==
    dPos = Len(dMods) + 1 =>
        dWork = applyModificationsToVisualization(dOriginal, dMods, dOrder)

\* the alignments of a contig, as the pairs of query-side coordinates
QueryCoordinates(d, query) ==
    [i \in {j \in 1..Len(d.alignments) : d.alignments[j].query = query} |->
        <<d.alignments[i].queryStart, d.alignments[i].queryEnd>>]

\* C4: after a run whose list is Invert(q1) twice and nothing else, every
\* alignment of q1 has the query-side start and end of the original
C4_InvertTwiceIsIdentity ==
    (dMods = << Invert(<<"q1">>), Invert(<<"q1">>) >> /\ dPos >= 2) =>
        QueryCoordinates(dWork, <<"q1">>) = QueryCoordinates(dOriginal, <<"q1">>)

\* C6: a round that applies a Break whose position is not strictly between 0
\* and the length of its contig leaves the contigs and the alignments of the
\* working dataset as they were
C6_InvalidBreakIsNoOp ==
    [][(/\ dPos' = dPos + 1
        /\ dPos < Len(dMods)
        /\ dMods[dPos + 1].type = "break"
        /\ Rejected(dWork, dMods[dPos + 1])
        /\ HasQuery(dWork, dMods[dPos + 1].query))
       => (dWork'.queries = dWork.queries /\ dWork'.alignments = dWork.alignments)]_vars


(***************************************************************************)
(* Session documents: exportSession and the session branch of              *)
(* finishDataLoad.  A document is what JSON.parse reads back from what     *)
(* JSON.stringify wrote: numbers, strings, booleans, arrays and plain      *)
(* objects come back as they were; a value of another kind is kept with    *)
(* its JSON kind.                                                          *)
(***************************************************************************)
JsonObject(fields) == [json |-> "object", fields |-> fields]

\* JSON.stringify(new Set(...)): a Set has no enumerable own property, it is
\* written as {}
StringifySet(set) == JsonObject(EmptyMap)

StringifySnapshot(snapshot) ==
    [snapshot EXCEPT !.uninformativeContigs = StringifySet(@)]

StringifyWorkspace(workspace) ==
    [workspace EXCEPT
        !.uninformativeContigs = StringifySet(@),
        !.history = [i \in 1..Len(workspace.history) |->
                        StringifySnapshot(workspace.history[i])]]

exportSession(rw, sel, v) ==
    [workspaces |-> [r \in DOMAIN rw |-> StringifyWorkspace(rw[r])],
     visualizationSettings |->
        [viewMode |-> v.viewMode,
         selectedRef |-> sel,
         referenceFlipped |-> v.referenceFlipped,
         zoom |-> v.zoom,
         pan |-> v.pan,
         settings |-> v.settings]]

\* new Set(x) throws a TypeError unless x is iterable; an object {} is not
NewSetThrows(x) == x.json # "array"

NewSet(x) == IF x.json = "array" THEN Range(x.items) ELSE {}

\* one entry of restoredWorkspaces
RestoreWorkspace(workspace) ==
    [workspace EXCEPT !.uninformativeContigs = NewSet(@), !.saved = TRUE]

\* the session branch of finishDataLoad: the workspaces, the selected
\* reference and the view it leaves; v is the view before the load
RestoreSession(d, document, v) ==
    LET first == d.references[1].name
        viz == document.visualizationSettings
    IN  IF \E r \in DOMAIN document.workspaces :
              NewSetThrows(document.workspaces[r].uninformativeContigs)
        THEN \* the catch block
             [referenceWorkspaces |-> initialWorkspaces(d),
              selectedRef |-> first,
              view |-> v]
        ELSE [referenceWorkspaces |->
                 [r \in DOMAIN document.workspaces |->
                     RestoreWorkspace(document.workspaces[r])],
              selectedRef |->
                 IF viz.selectedRef # "" /\
                    \E i \in 1..Len(d.references) : d.references[i].name = viz.selectedRef
                 THEN viz.selectedRef ELSE first,
              view |-> [viewMode |-> viz.viewMode,
                        referenceFlipped |-> viz.referenceFlipped,
                        zoom |-> viz.zoom,
                        pan |-> viz.pan,
                        settings |-> viz.settings]]

\* the workspace maps one edit away from rw
SessionEdits(rw, sel) ==
    { addModification(rw, rw, sel, Invert(<<"q1">>)),
      createChromosomeGroup(rw, rw, sel, "g1", << <<"q2">>, <<"q3">> >>),
      updateContigOrder(rw, rw, sel, ReversedOrder(getWorkspace(rw, sel).contigOrder)),
      setSelectedContigsForWorkspace(rw, rw, sel, << <<"q2">> >>),
      setUninformativeContigsForWorkspace(rw, rw, sel, { <<"q3">> }) }

RECURSIVE EditedWorkspaces(_)
EditedWorkspaces(n) ==
    IF n = 0 THEN { initialWorkspaces(parsedData) }
    ELSE LET before == EditedWorkspaces(n - 1)
         IN  before \cup UNION {SessionEdits(rw, sel) : rw \in before, sel \in RefNames}

SessionViews ==
    { defaultView,
      [defaultView EXCEPT !.viewMode = "identity", !.referenceFlipped = FALSE,
                          !.zoom = 2000, !.pan = [x |-> 3, y |-> 1]] }

\* a loaded dataset with some edits made and some view chosen
InitSession ==
    /\ originalData = parsedData
    /\ referenceWorkspaces \in EditedWorkspaces(MaxSessionEdits)
    /\ selectedRef \in RefNames
    /\ data = DerivedData(originalData, referenceWorkspaces, selectedRef)
    /\ view \in SessionViews
    /\ sessionFile = Undefined
    /\ showSaveDialog = FALSE
    /\ pendingRefChange = <<>>
    /\ lastEvent = [name |-> "edits"]
    /\ EngineIdle
    /\ PointerIdle

ExportSession ==
    /\ Interactive
    /\ sessionFile' = exportSession(referenceWorkspaces, selectedRef, view)
    /\ lastEvent' = [name |-> "exportSession"]
    /\ UNCHANGED <<selectedRef, referenceWorkspaces, showSaveDialog, pendingRefChange,
                   originalData, data, view>>
    /\ UNCHANGED engineVars
    /\ UNCHANGED pointerVars

\* handleFileUpload with the dataset files and the exported session file
LoadSession ==
    /\ ~showSaveDialog
    /\ sessionFile # Undefined
    /\ LET restored == RestoreSession(parsedData, sessionFile, view)
       IN  /\ originalData' = parsedData
           /\ referenceWorkspaces' = restored.referenceWorkspaces
           /\ selectedRef' = restored.selectedRef
           /\ view' = restored.view
           /\ data' = DerivedData(parsedData, restored.referenceWorkspaces,
                                  restored.selectedRef)
    /\ lastEvent' = [name |-> "finishDataLoad"]
    /\ UNCHANGED <<showSaveDialog, pendingRefChange, sessionFile>>
    /\ UNCHANGED engineVars
    /\ UNCHANGED pointerVars

\* exportForScaffolding: Object.entries(referenceWorkspaces).forEach merges
\* the groups by name into one object and appends the modification lists, in
\* the order the workspaces were created (the order of the references)
RECURSIVE MergeWorkspaces(_, _, _)
MergeWorkspaces(rw, refNames, merged) ==
    IF refNames = <<>> THEN merged
    ELSE LET refName == Head(refNames)
             workspace == rw[refName]
             groups == workspace.chromosomeGroups
         IN  IF refName \notin DOMAIN rw THEN MergeWorkspaces(rw, Tail(refNames), merged)
             ELSE MergeWorkspaces(rw, Tail(refNames),
                     [chromosomeGroups |->
                         [g \in DOMAIN merged.chromosomeGroups \cup DOMAIN groups |->
                             IF g \in DOMAIN groups THEN groups[g]
                             ELSE merged.chromosomeGroups[g]],
                      modifications |-> merged.modifications \o workspace.modifications])

exportForScaffolding(rw, d) ==
    MergeWorkspaces(rw, [i \in 1..Len(d.references) |-> d.references[i].name],
                    [chromosomeGroups |-> EmptyMap, modifications |-> <<>>])

\* the Export All button: the file is written and the App state stays
ExportForScaffolding ==
    /\ Interactive
    /\ lastEvent' = [name |-> "exportForScaffolding"]
    /\ UNCHANGED <<selectedRef, referenceWorkspaces, showSaveDialog, pendingRefChange,
                   originalData, data, view, sessionFile>>
    /\ UNCHANGED engineVars
    /\ UNCHANGED pointerVars

NextSession ==
    \/ ExportSession
    \/ LoadSession
    \/ ExportForScaffolding

SpecSession == InitSession /\ [][NextSession]_vars

\* C5: loading the session document that is the export of the present state
\* gives back, for every reference, the modifications, groups, order,
\* selection and uninformative set (as a set) of the present workspaces, and
\* the present view and selected reference
C5_SessionRoundTrip ==
    [][(/\ lastEvent'.name = "finishDataLoad"
        /\ sessionFile = exportSession(referenceWorkspaces, selectedRef, view))
       => /\ DOMAIN referenceWorkspaces' = DOMAIN referenceWorkspaces
          /\ \A r \in DOMAIN referenceWorkspaces :
                FiveFields(referenceWorkspaces'[r]) = FiveFields(referenceWorkspaces[r])
          /\ view' = view
          /\ selectedRef' = selectedRef]_vars


(***************************************************************************)
(* Contig visibility: the memos of components/DotPlot.jsx                  *)
(***************************************************************************)
\* the unique and unique_short alignments to the selected reference
RECURSIVE UniqueAlignments(_, _)
UniqueAlignments(as, sel) ==
    IF as = <<>> THEN <<>>
    ELSE (IF Head(as).ref = sel /\ Head(as).tag \in {"unique", "unique_short"}
          THEN <<Head(as)>> ELSE <<>>)
         \o UniqueAlignments(Tail(as), sel)

\* contig name -> its unique alignments to the selected reference; a contig
\* without one is no key of the map
contigAlignmentsMap(d, sel) ==
    IF d = Undefined \/ sel = "" THEN EmptyMap
    ELSE LET unique == UniqueAlignments(d.alignments, sel)
         IN  [contigName \in {unique[i].query : i \in 1..Len(unique)} |->
                 AlignmentsOf(unique, contigName)]

RECURSIVE SumLength(_)
SumLength(alignments) ==
    IF alignments = <<>> THEN 0
    ELSE Head(alignments).length + SumLength(Tail(alignments))

\* the group test that finds no contig in any group
isInNoGroup(chromosomeGroups, contigName) ==
    FALSE

isInGroup(chromosomeGroups, contigName) ==
    \E g \in DOMAIN chromosomeGroups : contigName \in Range(chromosomeGroups[g].contigs)

\* m.query === contigName || m.contigName === contigName; no modification
\* carries a contigName
hasModifications(modifications, contigName) ==
    \E i \in 1..Len(modifications) : modifications[i].query = contigName

\* the ratio test with the comparison turned round
RatioAtMost(totalLength, length, minUniqueRatio) ==
    IF length = 0 THEN totalLength > 0
    ELSE totalLength * 100 <= minUniqueRatio * length

\* totalLength / contigInfo.length >= minUniqueRatio, the ratio in percent;
\* 0 / 0 is NaN and compares false
RatioAtLeast(totalLength, length, minUniqueRatio) ==
    IF length = 0 THEN totalLength > 0
    ELSE totalLength * 100 >= minUniqueRatio * length

allowedContigsSet(d, sel, chromosomeGroups, modifications, uninformativeContigs, settings) ==
    LET map == contigAlignmentsMap(d, sel)
    IN  {contigName \in DOMAIN map :
            \/ isInGroup(chromosomeGroups, contigName)
            \/ hasModifications(modifications, contigName)
            \/ /\ contigName \notin uninformativeContigs
               /\ HasQuery(d, contigName)
               /\ LET contigInfo == d.queries[QueryIndex(d, contigName)]
                  IN  /\ ~(settings.minContigSize > 0
                           /\ contigInfo.length < settings.minContigSize)
                      /\ RatioAtLeast(SumLength(map[contigName]), contigInfo.length,
                                      settings.minUniqueRatio)}

\* filter settings tried: no threshold, thresholds some contigs pass, the
\* default size, a ratio nothing passes
FilterSettings ==
    {[minContigSize |-> size, minUniqueRatio |-> ratio] :
        size \in {0, 7, 30000}, ratio \in {0, 5, 101}}

\* the contigs of the groups and those the recorded modifications name
GroupedOrModified(workspace) ==
    UNION {Range(workspace.chromosomeGroups[g].contigs) :
              g \in DOMAIN workspace.chromosomeGroups}
    \cup {workspace.modifications[i].query : i \in 1..Len(workspace.modifications)}

\* the contigs of the working dataset with an alignment, of any kind, to sel
ContigsAlignedTo(d, sel) ==
    {d.queries[i].name : i \in 1..Len(d.queries)} \cap
    {d.alignments[i].query : i \in {j \in 1..Len(d.alignments) : d.alignments[j].ref = sel}}

\* C8: whatever the size and ratio thresholds, every contig aligned to the
\* selected reference that is in a group of that reference's workspace or is
\* named by one of its modifications is in the allowed set, be its alignments
\* unique or repetitive and be it marked uninformative or not
C8_GroupedOrModifiedAllowed ==
    (Loaded /\ selectedRef # "") =>
        \A settings \in FilterSettings :
            (GroupedOrModified(Workspace) \cap ContigsAlignedTo(data, selectedRef))
                \subseteq
                allowedContigsSet(data, selectedRef, Workspace.chromosomeGroups,
                                  Workspace.modifications,
                                  Workspace.uninformativeContigs, settings)

\* C11: Cancel in the decision dialog closes the dialog and drops the requested
\* reference; the active reference, every workspace (the five edit fields, the
\* saved flag and the history of the current one, and all the others), the
\* original dataset and the displayed dataset are the same as before.
C11_CancelChangesNothing ==
    [][lastEvent'.name = "cancel" =>
          /\ ~showSaveDialog'
          /\ pendingRefChange' = <<>>
          /\ selectedRef' = selectedRef
          /\ \A r \in DOMAIN referenceWorkspaces :
                /\ FiveFields(referenceWorkspaces'[r]) = FiveFields(referenceWorkspaces[r])
                /\ referenceWorkspaces'[r].saved = referenceWorkspaces[r].saved
                /\ referenceWorkspaces'[r].history = referenceWorkspaces[r].history
          /\ DOMAIN referenceWorkspaces' = DOMAIN referenceWorkspaces
          /\ originalData' = originalData
          /\ data' = data]_vars

\* Cancel was pressed on an unsaved workspace that has edits and history
C11_Witness ==
    /\ lastEvent.name = "cancel"
    /\ ~showSaveDialog
    /\ ~Workspace.saved
    /\ Len(Workspace.modifications) > 0
    /\ Len(Workspace.history) > 0

\* C12: Save in the decision dialog marks the workspace of the reference that
\* was selected as saved and leaves its modifications, groups, order,
\* uninformative set, selection and history unchanged; the other workspaces
\* are not written, so the saved edits are the ones found on switching back.
C12_SaveKeepsEdits ==
    [][lastEvent'.name = "save" =>
          /\ referenceWorkspaces'[selectedRef].saved
          /\ SixFields(referenceWorkspaces'[selectedRef]) = SixFields(Workspace)
          /\ \A r \in DOMAIN referenceWorkspaces \ {selectedRef} :
                referenceWorkspaces'[r] = referenceWorkspaces[r]
          /\ originalData' = originalData]_vars

\* Save was pressed and the workspace that was left holds edits and history
C12_Witness ==
    /\ lastEvent.name = "save"
    /\ \E r \in DOMAIN referenceWorkspaces \ {selectedRef} :
          /\ referenceWorkspaces[r].saved
          /\ Len(referenceWorkspaces[r].modifications) > 0
          /\ Len(referenceWorkspaces[r].history) > 0

\* C13: each of the seven mutating operations (addModification,
\* removeModification, createGroup, deleteGroup, setContigOrder, setSelection,
\* setUninformative) appends to the history of the current workspace exactly
\* one snapshot, and the snapshot holds the five fields the workspace had
\* before the operation.
C13_EveryMutationPushesSnapshot ==
    [][lastEvent'.name \in MutatingOperations =>
          referenceWorkspaces'[selectedRef].history
            = LastN(Append(Workspace.history, FiveFields(Workspace)), HistoryLimit)]_vars

(***************************************************************************)
(* A long editing run: modifications are added one after the other past    *)
(* the history limit, with undos in between                                *)
(***************************************************************************)
\* the state right after a dataset was loaded
InitHistory ==
    /\ originalData = parsedData
    /\ referenceWorkspaces = initialWorkspaces(parsedData)
    /\ selectedRef = parsedData.references[1].name
    /\ data = DerivedData(originalData, referenceWorkspaces, selectedRef)
    /\ showSaveDialog = FALSE
    /\ pendingRefChange = <<>>
    /\ view = defaultView
    /\ sessionFile = Undefined
    /\ lastEvent = [name |-> "finishDataLoad"]
    /\ EngineIdle
    /\ PointerIdle

AddModificationLong ==
    /\ Interactive
    /\ Len(Workspace.modifications) < HistoryLimit + MaxOverflow
    /\ Commit(addModification(referenceWorkspaces, referenceWorkspaces, selectedRef,
                              Invert(<<"q1">>)), "addModification")

NextHistory ==
    \/ AddModificationLong
    \/ Undo

SpecHistory == InitHistory /\ [][NextHistory]_vars

\* C14: the history of every workspace holds at most 50 snapshots; a push onto
\* a history of 50 evicts the oldest snapshot and keeps the 49 others in their
\* order followed by the new one, a push onto a shorter history appends.
C14_HistoryKeepsLastFifty ==
    /\ [](\A r \in DOMAIN referenceWorkspaces :
            Len(referenceWorkspaces[r].history) <= 50)
    /\ [][lastEvent'.name = "addModification" =>
            referenceWorkspaces'[selectedRef].history
              = IF Len(Workspace.history) = 50
                THEN Append(Tail(Workspace.history), FiveFields(Workspace))
                ELSE Append(Workspace.history, FiveFields(Workspace))]_vars

\* a push met a full history: more modifications than the history can hold
\* were added, the history is full and its oldest snapshot is no longer the
\* empty workspace
C14_Witness ==
    /\ lastEvent.name = "addModification"
    /\ Len(Workspace.modifications) > 50
    /\ Len(Workspace.history) = 50
    /\ Workspace.history[1].modifications # <<>>

\* C15: undo on a non-empty history removes exactly the most recent snapshot
\* (the older ones stay, in order) and in the same step sets modifications,
\* chromosomeGroups, contigOrder, uninformativeContigs and selectedContigs to
\* that snapshot, in the current workspace only; undo on an empty history
\* changes nothing.
C15_UndoPopsOneSnapshot ==
    /\ [](Len(Workspace.history) = 0 =>
            handleUndo(referenceWorkspaces, referenceWorkspaces, selectedRef)
              = referenceWorkspaces)
    /\ [][lastEvent'.name = "handleUndo" =>
            LET history == Workspace.history
            IN  /\ Len(history) > 0
                /\ Append(referenceWorkspaces'[selectedRef].history, history[Len(history)])
                     = history
                /\ FiveFields(referenceWorkspaces'[selectedRef]) = history[Len(history)]
                /\ \A r \in DOMAIN referenceWorkspaces \ {selectedRef} :
                      referenceWorkspaces'[r] = referenceWorkspaces[r]
                /\ selectedRef' = selectedRef]_vars

\* an undo took one snapshot of two: one is left, and the restored workspace
\* is an edited one
C15_Witness ==
    /\ lastEvent.name = "handleUndo"
    /\ Len(Workspace.history) = 1
    /\ Len(Workspace.modifications) > 0

\* C16: Reset all gives the current workspace the default order of its
\* reference (the contigs with at least one alignment to it, numbered from 0 in
\* query-list order) and leaves its modifications, groups, uninformative set,
\* selection and history empty: no snapshot of the state before the reset is
\* kept.
C16_ResetAllGivesDefault ==
    [][lastEvent'.name = "resetAllModifications" =>
          LET workspace == referenceWorkspaces'[selectedRef]
          IN  /\ SixFields(workspace)
                   = [contigOrder |-> DefaultOrder(originalData, selectedRef),
                      modifications |-> <<>>,
                      chromosomeGroups |-> EmptyMap,
                      uninformativeContigs |-> {},
                      selectedContigs |-> <<>>,
                      history |-> <<>>]
              /\ Len(Workspace.modifications) > 0]_vars

\* Reset all was used (the button shows only on a workspace that holds
\* modifications) and the workspace is now without modifications and history
C16_Witness ==
    /\ lastEvent.name = "resetAllModifications"
    /\ Workspace.modifications = <<>>
    /\ Workspace.history = <<>>
    /\ Workspace.contigOrder = DefaultOrder(originalData, selectedRef)

(***************************************************************************)
(* Breaks in an engine run                                                 *)
(***************************************************************************)
\* the length of a contig of d, 0 when d has no contig of that name
ContigLength(d, name) ==
    IF HasQuery(d, name) THEN d.queries[QueryIndex(d, name)].length ELSE 0

\* the round about to run applies a Break at a position strictly inside a
\* contig of the working dataset
ValidBreakRound ==
    /\ dPos < Len(dMods)
    /\ dPos' = dPos + 1
    /\ dMods[dPos + 1].type = "break"
    /\ HasQuery(dWork, dMods[dPos + 1].query)
    /\ 0 < dMods[dPos + 1].position
    /\ dMods[dPos + 1].position < ContigLength(dWork, dMods[dPos + 1].query)

\* the places in d of the alignments of the two segments of query that were
\* cut from the alignment a (its reference side tells which one)
PiecesOf(d, a, query) ==
    {j \in 1..Len(d.alignments) :
        /\ d.alignments[j].query \in {Append(query, "1"), Append(query, "2")}
        /\ d.alignments[j].ref = a.ref
        /\ d.alignments[j].refStart = a.refStart
        /\ d.alignments[j].refEnd = a.refEnd}

RECURSIVE SumQuerySpans(_, _)
SumQuerySpans(d, places) ==
    IF places = {} THEN 0
    ELSE LET j == CHOOSE x \in places : TRUE
         IN  (d.alignments[j].queryEnd - d.alignments[j].queryStart)
                + SumQuerySpans(d, places \ {j})

\* C17: a Break of a contig of length L at a position p with 0 < p < L gives
\* two segments whose lengths add up to L, and every alignment of the contig
\* with queryStart < p < queryEnd is replaced by two partial alignments whose
\* query-side lengths add up to the query-side length it had.
C17_BreakConservesLength ==
    [][ValidBreakRound =>
          LET query == dMods[dPos + 1].query
              position == dMods[dPos + 1].position
          IN  /\ ContigLength(dWork', Append(query, "1"))
                   + ContigLength(dWork', Append(query, "2"))
                     = ContigLength(dWork, query)
              /\ \A i \in 1..Len(dWork.alignments) :
                    LET a == dWork.alignments[i]
                    IN  (a.query = query /\ a.queryStart < position
                                        /\ position < a.queryEnd)
                        => /\ Cardinality(PiecesOf(dWork', a, query)) = 2
                           /\ \A j \in PiecesOf(dWork', a, query) :
                                 dWork'.alignments[j].isPartial
                           /\ SumQuerySpans(dWork', PiecesOf(dWork', a, query))
                                 = a.queryEnd - a.queryStart]_vars

\* a Break at 2 was applied to q1 while both of its alignments spanned 2
C17_Witness ==
    /\ dPos = 1
    /\ Len(dMods) >= 1
    /\ dMods[1] = Break(<<"q1">>, 2)
    /\ dOriginal.alignments[1].queryStart < 2
    /\ dOriginal.alignments[1].queryEnd > 2
    /\ Cardinality({j \in 1..Len(dWork.alignments) : dWork.alignments[j].isPartial}) = 4

\* the names of the contigs of d, in list order
QueryNames(d) == [i \in 1..Len(d.queries) |-> d.queries[i].name]

\* what the claim of C18 expects of the pieces of the alignment a: segment,
\* query-side start and end, partial flag
ExpectedPieces(a, query, position) ==
    IF a.queryEnd <= position
    THEN { <<Append(query, "1"), a.queryStart, a.queryEnd, a.isPartial>> }
    ELSE IF a.queryStart >= position
    THEN { <<Append(query, "2"), a.queryStart - position, a.queryEnd - position,
             a.isPartial>> }
    ELSE { <<Append(query, "1"), a.queryStart, position, TRUE>>,
           <<Append(query, "2"), 0, a.queryEnd - position, TRUE>> }

\* C18: a Break of a contig at a position strictly inside it puts name_1 and
\* name_2 in the contig's place and reclassifies every alignment of the
\* contig: ending at or before the break, to segment 1 with its coordinates;
\* starting at or after it, to segment 2 with both coordinates reduced by the
\* position; spanning it, to two partial alignments, start..position on
\* segment 1 and 0..end-position on segment 2.  No alignment of the original
\* name remains, the segments get no other alignment, and the alignments of
\* the other contigs stay.
C18_BreakReclassifiesAlignments ==
    [][ValidBreakRound =>
          LET query == dMods[dPos + 1].query
              position == dMods[dPos + 1].position
              qi == QueryIndex(dWork, query)
              segments == {Append(query, "1"), Append(query, "2")}
              old == {i \in 1..Len(dWork.alignments) : dWork.alignments[i].query = query}
          IN  /\ QueryNames(dWork')
                   = SubSeq(QueryNames(dWork), 1, qi - 1)
                       \o <<Append(query, "1"), Append(query, "2")>>
                       \o SubSeq(QueryNames(dWork), qi + 1, Len(dWork.queries))
              /\ \A j \in 1..Len(dWork'.alignments) : dWork'.alignments[j].query # query
              /\ \A i \in old :
                    LET a == dWork.alignments[i]
                        pieces == PiecesOf(dWork', a, query)
                    IN  /\ {<<dWork'.alignments[j].query, dWork'.alignments[j].queryStart,
                               dWork'.alignments[j].queryEnd, dWork'.alignments[j].isPartial>> :
                                j \in pieces} = ExpectedPieces(a, query, position)
                        /\ Cardinality(pieces)
                             = Cardinality(ExpectedPieces(a, query, position))
              /\ \A j \in 1..Len(dWork'.alignments) :
                    dWork'.alignments[j].query \in segments
                      => \E i \in old : j \in PiecesOf(dWork', dWork.alignments[i], query)
              /\ {dWork'.alignments[j] : j \in {k \in 1..Len(dWork'.alignments) :
                                                  dWork'.alignments[k].query \notin segments}}
                   = {dWork.alignments[i] : i \in (1..Len(dWork.alignments)) \ old}]_vars

\* a Break at 2 was applied to q1 with one alignment wholly right of 2 beside
\* the spanning one: q1 is gone and q1_2 holds an alignment that is not partial
C18_Witness ==
    /\ dPos = 1
    /\ Len(dMods) >= 1
    /\ dMods[1] = Break(<<"q1">>, 2)
    /\ dOriginal.alignments[1].queryStart >= 2
    /\ ~HasQuery(dWork, <<"q1">>)
    /\ \E j \in 1..Len(dWork.alignments) :
          /\ dWork.alignments[j].query = <<"q1", "2">>
          /\ ~dWork.alignments[j].isPartial

\* the modification at place i of the list names a contig the working dataset
\* does not have when its round comes
NamesAbsentContig(original, modifications, i) ==
    ~HasQuery(ApplyAll(original, SubSeq(modifications, 1, i - 1)), modifications[i].query)

\* C19: a modification naming a contig that the working dataset does not have
\* when its round comes (an unknown name, or a contig an earlier Break
\* replaced) leaves the working dataset as it is, and the finished run gives
\* the dataset that the list without that modification gives: the rounds
\* after it are applied.
C19_AbsentContigIsSkipped ==
    /\ [][(/\ dPos < Len(dMods)
            /\ dPos' = dPos + 1
            /\ ~HasQuery(dWork, dMods[dPos + 1].query)) => dWork' = dWork]_vars
    /\ [](dPos = Len(dMods) + 1 =>
            \A i \in 1..Len(dMods) :
                NamesAbsentContig(dOriginal, dMods, i) =>
                    dWork = applyModificationsToVisualization(
                                dOriginal, RemoveAt(dMods, i - 1), dOrder))

\* a finished run of Break(q1, 2), Invert(q1), Invert(q1_2): the inversion of
\* the replaced q1 was skipped and the inversion after it was applied
C19_Witness ==
    /\ dPos = Len(dMods) + 1
    /\ dMods = << Break(<<"q1">>, 2), Invert(<<"q1">>), Invert(<<"q1", "2">>) >>
    /\ dWork.queries[QueryIndex(dWork, <<"q1", "2">>)].orientation = "-"
    /\ dWork.queries[QueryIndex(dWork, <<"q1", "1">>)].orientation = "+"

Mirrored(a, length) ==
    [a EXCEPT !.queryStart = length - a.queryEnd, !.queryEnd = length - a.queryStart]

\* C21: the list is applied in its order and the order matters.  After the run
\* of [Invert(q1), Break(q1, 2)] every alignment of q1 is cut as its mirrored
\* coordinates (length - end, length - start) lie around the break, and the
\* finished working dataset differs from the one [Break(q1, 2), Invert(q1)]
\* gives from the same original dataset and contig order.
C21_BreakAfterInvertCutsMirrored ==
    (dMods = << Invert(<<"q1">>), Break(<<"q1">>, 2) >> /\ dPos >= 2) =>
        /\ \A i \in 1..Len(dOriginal.alignments) :
              LET a == dOriginal.alignments[i]
                  pieces == PiecesOf(dWork, a, <<"q1">>)
              IN  a.query = <<"q1">> =>
                    {<<dWork.alignments[j].query, dWork.alignments[j].queryStart,
                       dWork.alignments[j].queryEnd, dWork.alignments[j].isPartial>> :
                        j \in pieces}
                      = ExpectedPieces(Mirrored(a, ContigLength(dOriginal, <<"q1">>)),
                                       <<"q1">>, 2)
        /\ dPos = 3 =>
              dWork # applyModificationsToVisualization(
                          dOriginal, << Break(<<"q1">>, 2), Invert(<<"q1">>) >>, dOrder)

\* the run of [Invert(q1), Break(q1, 2)] has finished on a contig whose first
\* alignment lies left of the break before the inversion and right of it after
C21_Witness ==
    /\ dMods = << Invert(<<"q1">>), Break(<<"q1">>, 2) >>
    /\ dPos = 3
    /\ dOriginal.alignments[1].queryEnd <= 2
    /\ \E j \in 1..Len(dWork.alignments) :
          /\ dWork.alignments[j].refStart = dOriginal.alignments[1].refStart
          /\ dWork.alignments[j].refEnd = dOriginal.alignments[1].refEnd
          /\ dWork.alignments[j].query = <<"q1", "2">>

\* the summed length of the unique and unique_short alignments of the contig
\* to the reference sel
UniqueLength(d, sel, contigName) ==
    SumLength(AlignmentsOf(UniqueAlignments(d.alignments, sel), contigName))

\* the three conditions of the filter rule, the ratio in percent
PassesFilter(d, sel, workspace, settings, contigName) ==
    /\ contigName \notin workspace.uninformativeContigs
    /\ ContigLength(d, contigName) >= settings.minContigSize
    /\ UniqueLength(d, sel, contigName) * 100
          >= settings.minUniqueRatio * ContigLength(d, contigName)

\* C22: whatever the thresholds, a contig aligned to the selected reference
\* that is neither in a group nor named by a modification is in the allowed
\* set exactly when it is not marked uninformative, its length is at least
\* minContigSize, and its unique alignments to the selected reference sum to
\* at least minUniqueRatio of its length.
C22_FilterRuleDecides ==
    (Loaded /\ selectedRef # "") =>
        \A settings \in FilterSettings :
            \A contigName \in ContigsAlignedTo(data, selectedRef)
                                 \ GroupedOrModified(Workspace) :
                contigName \in allowedContigsSet(data, selectedRef,
                                                 Workspace.chromosomeGroups,
                                                 Workspace.modifications,
                                                 Workspace.uninformativeContigs, settings)
                  <=> PassesFilter(data, selectedRef, Workspace, settings, contigName)

(***************************************************************************)
(* The visibility filter and the plot under changing settings              *)
(***************************************************************************)
\* the edits made before the plot is looked at
PlotEdits(rw, sel) ==
    SessionEdits(rw, sel) \cup { addModification(rw, rw, sel, Invert(<<"q2">>)) }

RECURSIVE PlotWorkspaces(_)
PlotWorkspaces(n) ==
    IF n = 0 THEN { initialWorkspaces(parsedData) }
    ELSE LET before == PlotWorkspaces(n - 1)
         IN  before \cup UNION {PlotEdits(rw, sel) : rw \in before, sel \in RefNames}

\* values typed into the two threshold inputs; the ratio in percent
RatioInputs == { 0, 5, 50 }

SizeInputs == { 0, 7, 30000 }

\* a loaded dataset with some edits made, shown with the default settings
InitPlot ==
    /\ originalData = parsedData
    /\ referenceWorkspaces \in PlotWorkspaces(MaxPlotEdits)
    /\ selectedRef \in RefNames
    /\ data = DerivedData(originalData, referenceWorkspaces, selectedRef)
    /\ view = defaultView
    /\ sessionFile = Undefined
    /\ showSaveDialog = FALSE
    /\ pendingRefChange = <<>>
    /\ lastEvent = [name |-> "edits", field |-> ""]
    /\ EngineIdle
    /\ PointerIdle

\* onSettingsChange({...settings, [field]: value}) and the re-render
SettingsChange(field, value) ==
    /\ view' = [view EXCEPT !.settings[field] = value]
    /\ lastEvent' = [name |-> "onSettingsChange", field |-> field]
    /\ UNCHANGED <<selectedRef, referenceWorkspaces, showSaveDialog, pendingRefChange,
                   originalData, data, sessionFile>>
    /\ UNCHANGED engineVars
    /\ UNCHANGED pointerVars

\* the ratio input: Math.max(0, Math.min(100, value)) / 100
SetMinUniqueRatio ==
    \E value \in RatioInputs :
        SettingsChange("minUniqueRatio",
                       IF value < 0 THEN 0 ELSE IF value > 100 THEN 100 ELSE value)

\* the size input: value >= 0 ? value : 0
SetMinContigSize ==
    \E value \in SizeInputs :
        SettingsChange("minContigSize", IF value >= 0 THEN value ELSE 0)

\* the checkbox of the repetitive alignments
SetShowRepetitive ==
    \E checked \in BOOLEAN : SettingsChange("showRepetitive", checked)

NextPlot ==
    \/ SetMinUniqueRatio
    \/ SetMinContigSize
    \/ SetShowRepetitive

SpecPlot == InitPlot /\ [][NextPlot]_vars

\* the highest identity among the contig's unique alignments to sel
\* (maxIdentity of the contig list, starting from 0)
BestIdentity(d, sel, contigName) ==
    LET alignments == AlignmentsOf(UniqueAlignments(d.alignments, sel), contigName)
        identities == {alignments[i].identity : i \in 1..Len(alignments)} \cup {0}
    IN  CHOOSE best \in identities : \A other \in identities : other <= best

\* the allowed set of the present workspace under the given thresholds
AllowedUnder(settings) ==
    allowedContigsSet(data, selectedRef, Workspace.chromosomeGroups,
                      Workspace.modifications, Workspace.uninformativeContigs, settings)

\* the allowed set of the present workspace under the present thresholds
AllowedNow == AllowedUnder(view.settings)

\* C23: with everything else fixed, a change of minUniqueRatio to a higher
\* value leaves a subset of the contigs allowed, and a change of
\* minContigSize to a lower value leaves a superset allowed.
C23_ThresholdsAreMonotone ==
    [][/\ (/\ lastEvent'.field = "minUniqueRatio"
           /\ view'.settings.minUniqueRatio >= view.settings.minUniqueRatio)
             => AllowedNow' \subseteq AllowedNow
       /\ (/\ lastEvent'.field = "minContigSize"
           /\ view'.settings.minContigSize <= view.settings.minContigSize)
             => AllowedNow \subseteq AllowedNow']_vars

\* the ratio was just set to a value that hides a contig a lower ratio
\* allows, while a contig stays allowed
C23_Witness ==
    /\ lastEvent.field = "minUniqueRatio"
    /\ AllowedNow # {}
    /\ \E ratio \in RatioInputs :
          /\ ratio < view.settings.minUniqueRatio
          /\ AllowedNow # AllowedUnder([view.settings EXCEPT !.minUniqueRatio = ratio])
          /\ AllowedNow \subseteq
                AllowedUnder([view.settings EXCEPT !.minUniqueRatio = ratio])

(***************************************************************************)
(* The display cap                                                         *)
(***************************************************************************)
\* The allowed set after the display cap: when more than cap contigs are
\* allowed, the grouped and the modified ones stay and the remaining places
\* go to the longest other contigs, an earlier contig first among equals.
capAllowedSet(d, allowed, chromosomeGroups, modifications, cap) ==
    LET kept == {contigName \in allowed :
                    \/ isInGroup(chromosomeGroups, contigName)
                    \/ hasModifications(modifications, contigName)}
        rest == allowed \ kept
        places == IF cap > Cardinality(kept) THEN cap - Cardinality(kept) ELSE 0
        Before(a, b) ==
            \/ ContigLength(d, a) > ContigLength(d, b)
            \/ /\ ContigLength(d, a) = ContigLength(d, b)
               /\ QueryIndex(d, a) < QueryIndex(d, b)
    IN  IF Cardinality(allowed) <= cap THEN allowed
        ELSE kept \cup {contigName \in rest :
                           Cardinality({other \in rest : Before(other, contigName)})
                              < places}

Caps == 1..MaxCap

\* the allowed set of the present workspace under the thresholds and the cap
CappedUnder(settings, cap) ==
    capAllowedSet(data, AllowedUnder(settings), Workspace.chromosomeGroups,
                  Workspace.modifications, cap)

getFilteredAlignments(d, sel, settings) ==
    IF d = Undefined THEN <<>>
    ELSE LET Shown(alignment) ==
                 /\ ~(sel # "" /\ alignment.ref # sel)
                 /\ ~(~settings.showRepetitive /\ alignment.tag = "repetitive")
                 /\ ~(~settings.showAllAlignments /\ alignment.tag = "unique_short")
                 /\ ~(alignment.length < settings.minAlignmentLength)
         IN  SelectSeq(d.alignments, Shown)

\* filteredAlignments.filter(a => allowedContigsSet.has(a.query))
allowedAlignments(alignments, allowed) ==
    LET Allowed(alignment) == alignment.query \in allowed
    IN  SelectSeq(alignments, Allowed)

\* a variant of the queries filter that keeps every contig of the dataset
everyQuery(queries, allowed) == queries

\* data.queries.filter(q => allowedContigsSet.has(q.name))
allowedQueries(queries, allowed) ==
    LET Allowed(query) == query.name \in allowed
    IN  SelectSeq(queries, Allowed)

\* the gap after a contig, in twentieths of a base:
\* Math.max(1000000, query.length * 0.1), halved for a broken contig
QueryGap(query) ==
    LET gap == IF 2 * query.length > 20000000 THEN 2 * query.length ELSE 20000000
    IN  IF query.isBroken THEN gap \div 2 ELSE gap

\* currentOffset before the contig at place i, in twentieths of a base
RECURSIVE OffsetBefore(_, _)
OffsetBefore(queries, i) ==
    IF i = 1 THEN 0
    ELSE OffsetBefore(queries, i - 1) + 20 * queries[i - 1].length
         + QueryGap(queries[i - 1])

\* calculateQueryOffsets: contig name -> offset; a later contig of the same
\* name overwrites the entry
calculateQueryOffsets(queries) ==
    [name \in {queries[i].name : i \in 1..Len(queries)} |->
        LET places == {i \in 1..Len(queries) : queries[i].name = name}
        IN  OffsetBefore(queries, CHOOSE i \in places : \A j \in places : j <= i)]

\* calculateScales: the contigs in layout order and their offsets
calculateScales(d, sel, contigOrder) ==
    LET orderedQueries == SortByOrder(d.queries, contigOrder)
    IN  [queryOffsets |-> calculateQueryOffsets(orderedQueries),
         orderedQueries |-> orderedQueries]

\* drawDotPlot: the alignments handed to drawAlignments and the layout they
\* are drawn in; nothing is laid out when no alignment is left
drawDotPlot(d, sel, settings, allowed, contigOrder) ==
    LET filteredAlignments ==
            allowedAlignments(getFilteredAlignments(d, sel, settings), allowed)
        filteredData == [d EXCEPT !.queries = allowedQueries(d.queries, allowed),
                                  !.alignments = filteredAlignments]
    IN  IF filteredAlignments = <<>>
        THEN [alignments |-> <<>>, queryOffsets |-> EmptyMap, orderedQueries |-> <<>>]
        ELSE [alignments |-> filteredAlignments,
              queryOffsets |-> calculateScales(filteredData, sel, contigOrder).queryOffsets,
              orderedQueries |-> calculateScales(filteredData, sel, contigOrder).orderedQueries]

\* the allowed sets handed to the plot: the computed one and its capped forms
AllowedSets ==
    {AllowedNow} \cup {CappedUnder(view.settings, cap) : cap \in Caps}

\* the plot of the present workspace
Plot(allowed) ==
    drawDotPlot(data, selectedRef, view.settings, allowed, Workspace.contigOrder)

\* C25: every drawn alignment belongs to an allowed contig and to the
\* selected reference, and only allowed contigs get a vertical offset.
C25_AllowedSetRestrictsPlot ==
    \A allowed \in AllowedSets :
        LET plot == Plot(allowed)
        IN  /\ \A i \in 1..Len(plot.alignments) :
                  /\ plot.alignments[i].query \in allowed
                  /\ plot.alignments[i].ref = selectedRef
            /\ DOMAIN plot.queryOffsets \subseteq allowed

\* a plot is drawn, with a contig of the selected reference hidden: it has
\* alignments to the reference the settings would show, none of them drawn,
\* and no offset
C25_Witness ==
    \E allowed \in AllowedSets :
        LET plot == Plot(allowed)
            shown == getFilteredAlignments(data, selectedRef, view.settings)
        IN  /\ plot.alignments # <<>>
            /\ \E i \in 1..Len(shown) :
                  /\ shown[i].query \notin allowed
                  /\ shown[i].query \notin DOMAIN plot.queryOffsets
                  /\ \A j \in 1..Len(plot.alignments) :
                        plot.alignments[j].query # shown[i].query

\* C26: of two laid-out contigs with explicit contigOrder values, the one
\* with the lower value has the strictly lower vertical offset.
C26_ExplicitOrderGivesOffsets ==
    \A allowed \in AllowedSets :
        LET offsets == Plot(allowed).queryOffsets
            explicit == DOMAIN offsets \cap DOMAIN Workspace.contigOrder
        IN  \A a \in explicit : \A b \in explicit :
                Workspace.contigOrder[a] < Workspace.contigOrder[b]
                    => offsets[a] < offsets[b]

\* two contigs are laid out by their explicit values against the order of
\* the dataset, their lengths and their identities
C26_Witness ==
    LET offsets == Plot(AllowedNow).queryOffsets
        explicit == DOMAIN offsets \cap DOMAIN Workspace.contigOrder
    IN  \E a \in explicit : \E b \in explicit :
            /\ Workspace.contigOrder[a] < Workspace.contigOrder[b]
            /\ offsets[a] < offsets[b]
            /\ QueryIndex(data, a) > QueryIndex(data, b)
            /\ ContigLength(data, a) < ContigLength(data, b)
            /\ BestIdentity(data, selectedRef, a) < BestIdentity(data, selectedRef, b)

\* the plot of the dataset an engine run has finished, every contig allowed
\* that the default thresholds of the loaded page admit
RunPlot ==
    drawDotPlot(dWork, "chrA", defaultView.settings,
                allowedContigsSet(dWork, "chrA", EmptyMap, dMods, {},
                                  [defaultView.settings EXCEPT !.minContigSize = 0]),
                dOrder)

\* C27: in the layout of a finished run, contigs with explicit contigOrder
\* values are in ascending order of the value, and contigs without one are in
\* descending order of their best alignment identity, equal identities in the
\* order of the dataset.
C27_LayoutOrderRule ==
    dPos = Len(dMods) + 1 =>
        LET ordered == RunPlot.orderedQueries
            Explicit(i) == ordered[i].name \in DOMAIN dOrder
            Best(i) == BestIdentity(dWork, "chrA", ordered[i].name)
        IN  \A i \in 1..Len(ordered) : \A j \in 1..Len(ordered) :
                i < j =>
                    /\ (Explicit(i) /\ Explicit(j))
                          => dOrder[ordered[i].name] <= dOrder[ordered[j].name]
                    /\ (~Explicit(i) /\ ~Explicit(j))
                          => /\ Best(i) >= Best(j)
                             /\ Best(i) = Best(j)
                                   => QueryIndex(dWork, ordered[i].name)
                                         < QueryIndex(dWork, ordered[j].name)

(***************************************************************************)
(* The camera: mode, zoom and pan (App.js, Toolbar, ControlPanel, DotPlot) *)
(* Zoom is in thousandths, so the wheel's delta = deltaY * -0.001 is       *)
(* -deltaY; products and quotients are rounded down to whole units.        *)
(***************************************************************************)
MinZoom == 100

MaxZoom == 10000

\* zoom-to-contig never zooms further than 5x
MaxContigZoom == 5000

\* a clamp that lets every value through
UnclampedZoom(zoom) == zoom

\* Math.max(0.1, Math.min(10, zoom))
ClampZoom(zoom) ==
    IF zoom < MinZoom THEN MinZoom ELSE IF zoom > MaxZoom THEN MaxZoom ELSE zoom

\* handleWheel: zoom about the pointer, in exploration mode only
handleWheel(mode, zoom, pan, deltaY, mouse) ==
    IF ~mode THEN [zoom |-> zoom, pan |-> pan]
    ELSE LET newZoom == ClampZoom(zoom - deltaY)
         IN  [zoom |-> newZoom,
              pan |-> [x |-> mouse.x - ((mouse.x - pan.x) * newZoom) \div zoom,
                       y |-> mouse.y - ((mouse.y - pan.y) * newZoom) \div zoom]]

\* onZoomIn: Math.min(prev * 1.2, 10)
zoomIn(zoom) ==
    IF (zoom * 12) \div 10 > MaxZoom THEN MaxZoom ELSE (zoom * 12) \div 10

\* onZoomOut: Math.max(prev / 1.2, 0.1)
zoomOut(zoom) ==
    IF (zoom * 10) \div 12 < MinZoom THEN MinZoom ELSE (zoom * 10) \div 12

\* zoomToContig: the zoom that fits the contig's alignments to sel, or the
\* present zoom and pan when the contig has none
zoomToContig(d, sel, zoom, pan, contigName) ==
    LET places == {i \in 1..Len(d.alignments) :
                      d.alignments[i].query = contigName /\ d.alignments[i].ref = sel}
        refPositions == {d.alignments[i].refStart : i \in places}
                        \cup {d.alignments[i].refEnd : i \in places}
        minRef == CHOOSE low \in refPositions : \A other \in refPositions : low <= other
        maxRef == CHOOSE high \in refPositions : \A other \in refPositions : other <= high
        refRange == maxRef - minRef
        refPlaces == {i \in 1..Len(d.references) : d.references[i].name = sel}
        refLength == d.references[Min(refPlaces)].length
        fit == (refLength * 1000) \div (refRange * 3)
    IN  IF d = Undefined \/ sel = "" \/ places = {} \/ refPlaces = {}
        THEN [zoom |-> zoom, pan |-> pan]
        ELSE [zoom |-> IF refRange = 0 \/ fit > MaxContigZoom THEN MaxContigZoom ELSE fit,
              pan |-> [x |-> 0, y |-> 0]]

\* handleMouseMove's pan that follows the pointer whether or not a drag is on
panFollowingPointer(mode, dragging, start, pan, mouse) ==
    [x |-> mouse.x - start.x, y |-> mouse.y - start.y]

\* handleMouseMove: the pan after a pointer move
panAfterMove(mode, dragging, start, pan, mouse) ==
    IF ~mode \/ ~dragging THEN pan
    ELSE [x |-> mouse.x - start.x, y |-> mouse.y - start.y]

\* pointer positions on the canvas and wheel movements
MousePoints == { [x |-> 0, y |-> 0], [x |-> 4, y |-> 2] }

WheelDeltas == { -9000, -200, 300, 900 }

\* the dataset is loaded and shown with thresholds that admit its contigs
InitView ==
    /\ originalData = parsedData
    /\ referenceWorkspaces = initialWorkspaces(parsedData)
    /\ selectedRef \in RefNames
    /\ data = DerivedData(originalData, referenceWorkspaces, selectedRef)
    /\ showSaveDialog = FALSE
    /\ pendingRefChange = <<>>
    /\ view = [defaultView EXCEPT !.settings.minContigSize = 0]
    /\ sessionFile = Undefined
    /\ lastEvent = [name |-> "finishDataLoad", gesture |-> 0]
    /\ EngineIdle
    /\ PointerIdle

\* one more event of the run: only zoom, pan and the pointer state change
Gesture(name) ==
    /\ lastEvent.gesture < MaxGestures
    /\ lastEvent' = [name |-> name, gesture |-> lastEvent.gesture + 1]
    /\ UNCHANGED <<selectedRef, referenceWorkspaces, showSaveDialog, pendingRefChange,
                   originalData, data, sessionFile>>
    /\ UNCHANGED engineVars

\* the mode button of the toolbar
ToggleExplorationMode ==
    /\ Gesture("onExplorationModeChange")
    /\ explorationMode' = ~explorationMode
    /\ UNCHANGED <<view, isDragging, dragStart>>

HandleWheel ==
    /\ Gesture("handleWheel")
    /\ \E deltaY \in WheelDeltas : \E mouse \in MousePoints :
          LET after == handleWheel(explorationMode, view.zoom, view.pan, deltaY, mouse)
          IN  view' = [view EXCEPT !.zoom = after.zoom, !.pan = after.pan]
    /\ UNCHANGED pointerVars

\* the zoom buttons are rendered in exploration mode only
ZoomIn ==
    /\ explorationMode
    /\ Gesture("onZoomIn")
    /\ view' = [view EXCEPT !.zoom = zoomIn(view.zoom)]
    /\ UNCHANGED pointerVars

ZoomOut ==
    /\ explorationMode
    /\ Gesture("onZoomOut")
    /\ view' = [view EXCEPT !.zoom = zoomOut(view.zoom)]
    /\ UNCHANGED pointerVars

\* the reset-view button is rendered in both modes
ResetView ==
    /\ Gesture("resetView")
    /\ view' = [view EXCEPT !.zoom = 1000, !.pan = [x |-> 0, y |-> 0]]
    /\ UNCHANGED pointerVars

\* a double click on a row of the contig list, which the control panel shows
\* in scaffolding mode
ZoomToContig ==
    /\ ~explorationMode
    /\ Gesture("zoomToContig")
    /\ \E contigName \in AllowedUnder(view.settings) :
          LET after == zoomToContig(data, selectedRef, view.zoom, view.pan, contigName)
          IN  view' = [view EXCEPT !.zoom = after.zoom, !.pan = after.pan]
    /\ UNCHANGED pointerVars

\* handleMouseDown: a press starts a drag in exploration mode only
HandleMouseDown ==
    /\ Gesture("handleMouseDown")
    /\ \E mouse \in MousePoints :
          IF ~explorationMode THEN UNCHANGED <<isDragging, dragStart>>
          ELSE /\ isDragging' = TRUE
               /\ dragStart' = [x |-> mouse.x - view.pan.x, y |-> mouse.y - view.pan.y]
    /\ UNCHANGED <<view, explorationMode>>

HandleMouseMove ==
    /\ Gesture("handleMouseMove")
    /\ \E mouse \in MousePoints :
          view' = [view EXCEPT !.pan = panAfterMove(explorationMode, isDragging,
                                                    dragStart, view.pan, mouse)]
    /\ UNCHANGED pointerVars

HandleMouseUp ==
    /\ Gesture("handleMouseUp")
    /\ isDragging' = FALSE
    /\ UNCHANGED <<view, explorationMode, dragStart>>

HandleMouseLeave ==
    /\ Gesture("handleMouseLeave")
    /\ isDragging' = FALSE
    /\ UNCHANGED <<view, explorationMode, dragStart>>

NextView ==
    \/ ToggleExplorationMode
    \/ HandleWheel
    \/ ZoomIn
    \/ ZoomOut
    \/ ResetView
    \/ ZoomToContig
    \/ HandleMouseDown
    \/ HandleMouseMove
    \/ HandleMouseUp
    \/ HandleMouseLeave

SpecView == InitView /\ [][NextView]_vars

\* C28: a step taken in scaffolding mode leaves zoom and pan as they were,
\* whichever of the camera operations it is.
C28_ScaffoldingFreezesCamera ==
    [][~explorationMode => (view'.zoom = view.zoom /\ view'.pan = view.pan)]_vars

\* C29: from zoom 1, whatever wheel zooms, zoom-in, zoom-out, reset-view and
\* zoom-to-contig operations follow, zoom is within 0.1 and 10.
C29_ZoomStaysInRange ==
    view.zoom >= MinZoom /\ view.zoom <= MaxZoom

\* the wheel has driven the zoom onto the upper limit from below it
C29_Witness ==
    /\ lastEvent.name = "handleWheel"
    /\ view.zoom = MaxZoom
    /\ lastEvent.gesture >= 2

\* C30: a pointer move changes pan only while a drag is on and the mode is
\* exploration; a drag starts only with a press in exploration mode and is
\* over after a release or a leave; a press in scaffolding mode starts none.
C30_DragPansOnlyWhileHeld ==
    [][/\ (lastEvent'.name = "handleMouseMove" /\ view'.pan # view.pan)
             => (isDragging /\ explorationMode)
       /\ (lastEvent'.name = "handleMouseMove" /\ ~(isDragging /\ explorationMode))
             => view' = view
       /\ (~isDragging /\ isDragging')
             => (lastEvent'.name = "handleMouseDown" /\ explorationMode)
       /\ (lastEvent'.name = "handleMouseDown" /\ ~explorationMode)
             => (isDragging' = isDragging /\ dragStart' = dragStart /\ view' = view)
       /\ lastEvent'.name \in {"handleMouseUp", "handleMouseLeave"}
             => (~isDragging' /\ view' = view)]_vars

\* a drag has moved the plot: the press was in exploration mode, the move
\* changed pan, and a release ended the drag with the pan kept
C30_Witness ==
    /\ lastEvent.name = "handleMouseUp"
    /\ ~isDragging
    /\ explorationMode
    /\ view.zoom = 1000
    /\ view.pan = [x |-> 4, y |-> 2]

(***************************************************************************)
(* The scaffolding controls of the control panel: the contig list, the     *)
(* group box and the modification list (components/Toolbar.jsx)            *)
(***************************************************************************)
\* a dataset with three contigs on chrB; q2, the middle one of the query
\* list, is shorter than the size threshold 7
panelData ==
    [references |-> << [name |-> "chrA", length |-> 20],
                       [name |-> "chrB", length |-> 20] >>,
     queries |-> << Query(<<"q1">>, 10), Query(<<"q2">>, 6), Query(<<"q3">>, 8) >>,
     alignments |-> <<
        Alignment("chrA", <<"q1">>, 1, 4, 2, 5, 3, "unique", 90),
        Alignment("chrA", <<"q2">>, 10, 16, 1, 5, 4, "repetitive", 70),
        Alignment("chrB", <<"q1">>, 0, 4, 0, 4, 4, "unique", 80),
        Alignment("chrB", <<"q2">>, 5, 8, 1, 4, 3, "unique", 95),
        Alignment("chrB", <<"q3">>, 9, 14, 1, 6, 5, "unique", 85) >>]

\* the contig list of the panel, as names: the keys of the alignments map
\* in insertion order that are allowed and are queries of the dataset,
\* sorted (a stable sort) by the manual order where either contig has one
\* and by descending identity otherwise
getContigsForReference(d, sel, contigOrder, allowed) ==
    IF d = Undefined \/ sel = "" THEN <<>>
    ELSE LET unique == UniqueAlignments(d.alignments, sel)
             names == {n \in DOMAIN contigAlignmentsMap(d, sel) :
                          n \in allowed /\ HasQuery(d, n)}
             seen(n) == Min({i \in 1..Len(unique) : unique[i].query = n})
             key(n) == OrderKey(contigOrder, n)
             before(a, b) ==
                 IF key(a) # 999999 \/ key(b) # 999999 THEN key(a) < key(b)
                 ELSE BestIdentity(d, sel, b) < BestIdentity(d, sel, a)
             rank(n) == Cardinality({m \in names :
                                        \/ before(m, n)
                                        \/ ~before(n, m) /\ seen(m) < seen(n)})
         IN  [i \in 1..Cardinality(names) |-> CHOOSE n \in names : rank(n) = i - 1]

\* String.prototype.trim on a typed name, a sequence of tokens in which " "
\* is a whitespace character and any other token a run of other characters
Trim(typed) ==
    LET inked == {i \in 1..Len(typed) : typed[i] # " "}
    IN  IF inked = {} THEN <<>>
        ELSE SubSeq(typed, Min(inked), CHOOSE i \in inked : \A j \in inked : j <= i)

\* the names typed into the group box
TypedNames == { <<"g1">>, <<" ", "g1">>, <<" ">> }

\* the Create button of the group box; the alert leaves every state alone
handleCreateGroup(prev, rw, sel, contigsForSelectedRef, newGroupName) ==
    LET workspace == getWorkspace(rw, sel)
        selectedContigs == workspace.selectedContigs
        isSelected(contigName) == contigName \in Range(selectedContigs)
        orderedContigs == SelectSeq(contigsForSelectedRef, isSelected)
    IN  IF Trim(newGroupName) = <<>> \/ Len(selectedContigs) = 0 THEN prev
        ELSE IF newGroupName \in DOMAIN workspace.chromosomeGroups THEN prev
        ELSE setSelectedContigsForWorkspace(
                 createChromosomeGroup(prev, rw, sel, Trim(newGroupName), orderedContigs),
                 rw, sel, <<>>)

\* the arrows of a contig row
handleMoveContig(prev, rw, sel, contigsForSelectedRef, contigName, direction) ==
    LET currentContigs == contigsForSelectedRef
        currentIndex == FirstOf({i \in 1..Len(currentContigs) :
                                    currentContigs[i] = contigName}) - 1
        newIndex == IF direction = "up" THEN currentIndex - 1 ELSE currentIndex + 1
        without == SubSeq(currentContigs, 1, currentIndex)
                      \o SubSeq(currentContigs, currentIndex + 2, Len(currentContigs))
        reordered == SubSeq(without, 1, newIndex) \o <<contigName>>
                        \o SubSeq(without, newIndex + 1, Len(without))
        updatedOrder == [name \in Range(reordered) |->
                            FirstOf({i \in 1..Len(reordered) : reordered[i] = name}) - 1]
    IN  IF currentIndex = -1 THEN prev
        ELSE IF newIndex < 0 \/ newIndex >= Len(currentContigs) THEN prev
        ELSE updateContigOrder(prev, rw, sel, updatedOrder)

\* the contig list of the present render
ContigList ==
    getContigsForReference(data, selectedRef, Workspace.contigOrder, AllowedNow)

\* the dataset loaded in scaffolding mode, with the size threshold at 0 or 7
InitPanel ==
    /\ originalData = panelData
    /\ referenceWorkspaces = initialWorkspaces(panelData)
    /\ selectedRef \in RefNames
    /\ data = DerivedData(originalData, referenceWorkspaces, selectedRef)
    /\ showSaveDialog = FALSE
    /\ pendingRefChange = <<>>
    /\ \E size \in {0, 7} : view = [defaultView EXCEPT !.settings.minContigSize = size]
    /\ sessionFile = Undefined
    /\ lastEvent = [name |-> "finishDataLoad"]
    /\ EngineIdle
    /\ explorationMode = FALSE
    /\ isDragging = FALSE
    /\ dragStart = [x |-> 0, y |-> 0]

\* a panel handler that queues workspace updates, then the re-render and effect
PanelCommit(newWorkspaces, event) ==
    /\ referenceWorkspaces' = newWorkspaces
    /\ data' = DerivedData(originalData, newWorkspaces, selectedRef)
    /\ lastEvent' = event
    /\ UNCHANGED <<selectedRef, showSaveDialog, pendingRefChange, originalData>>
    /\ UNCHANGED sessionVars
    /\ UNCHANGED engineVars
    /\ UNCHANGED pointerVars

HandleCreateGroup ==
    /\ Interactive
    /\ HistoryRoom
    /\ \E newGroupName \in TypedNames :
         PanelCommit(handleCreateGroup(referenceWorkspaces, referenceWorkspaces,
                                       selectedRef, ContigList, newGroupName),
                     [name |-> "handleCreateGroup", newGroupName |-> newGroupName])

HandleMoveContig ==
    /\ Interactive
    /\ HistoryRoom
    /\ \E i \in 1..Len(ContigList), direction \in {"up", "down"} :
         PanelCommit(handleMoveContig(referenceWorkspaces, referenceWorkspaces,
                                      selectedRef, ContigList, ContigList[i], direction),
                     [name |-> "handleMoveContig", contigName |-> ContigList[i],
                      direction |-> direction])

\* modifications.forEach((_, i) => onRemoveModification(i)), all in one
\* closure; the button is rendered only while there are modifications
ClearAllModifications ==
    /\ Interactive
    /\ HistoryRoom
    /\ Len(Workspace.modifications) > 0
    /\ PanelCommit(RemoveEach(referenceWorkspaces, referenceWorkspaces, selectedRef,
                              [i \in 1..Len(Workspace.modifications) |-> i - 1]),
                   [name |-> "clearAllModifications"])

\* the datasets handed over by the file parser: panelData, whole or with
\* some of its three collections missing
UploadedDatasets ==
    {[field \in fields |-> panelData[field]] :
        fields \in SUBSET {"references", "queries", "alignments"}}

\* a load that creates a workspace for every reference it can number,
\* with an empty order where a collection is missing
finishDataLoadLenient(rw, d) ==
    LET refNames == IF "references" \in DOMAIN d
                    THEN {d.references[i].name : i \in 1..Len(d.references)}
                    ELSE {"chrA"}
        whole == DOMAIN d = {"references", "queries", "alignments"}
    IN  [threw |-> ~whole,
         referenceWorkspaces |->
             [r \in refNames |-> NewWorkspace(IF whole THEN initialOrder(d, r)
                                              ELSE EmptyMap)],
         selectedRef |-> IF whole THEN d.references[1].name ELSE ""]

\* finishDataLoad without a session file. parsedData.references.forEach
\* throws when references is missing; in its first round
\* parsedData.alignments.filter or parsedData.queries.forEach throws when
\* that collection is missing. The catch block reports the error, and
\* setReferenceWorkspaces and setSelectedRef, which come after the loop,
\* are not reached.
finishDataLoad(rw, d) ==
    LET threw == \/ "references" \notin DOMAIN d
                 \/ /\ Len(d.references) > 0
                    /\ ("alignments" \notin DOMAIN d \/ "queries" \notin DOMAIN d)
    IN  IF threw
        THEN [threw |-> TRUE, referenceWorkspaces |-> rw, selectedRef |-> ""]
        ELSE [threw |-> FALSE,
              referenceWorkspaces |-> initialWorkspaces(d),
              selectedRef |-> IF Len(d.references) > 0 THEN d.references[1].name
                              ELSE ""]

\* handleFileUpload on the load page with the two dataset files, then the
\* Proceed button of the N50 dialog. setOriginalData and setData run before
\* the loop and stay in effect when it throws.
FinishDataLoad ==
    /\ ~Loaded
    /\ ~showSaveDialog
    /\ \E d \in UploadedDatasets :
         LET loaded == finishDataLoad(referenceWorkspaces, d)
         IN  /\ originalData' = d
             /\ data' = d
             /\ referenceWorkspaces' = loaded.referenceWorkspaces
             /\ selectedRef' = IF loaded.threw THEN selectedRef ELSE loaded.selectedRef
             /\ lastEvent' = [name |-> "handleN50Proceed", error |-> loaded.threw]
    /\ UNCHANGED <<showSaveDialog, pendingRefChange>>
    /\ UNCHANGED sessionVars
    /\ UNCHANGED engineVars
    /\ UNCHANGED pointerVars

\* addModification called with a break of q1 inside the contig
AddBreak ==
    /\ Interactive
    /\ HistoryRoom
    /\ PanelCommit(addModification(referenceWorkspaces, referenceWorkspaces, selectedRef,
                                   Break(<<"q1">>, 4)),
                   [name |-> "addModification"])

NextPanel ==
    \/ FinishDataLoad
    \/ AddBreak
    \/ ResetToLoadPage
    \/ SetSelectedContigs
    \/ InvertContig
    \/ HandleCreateGroup
    \/ HandleMoveContig
    \/ ClearAllModifications

SpecPanel == InitPanel /\ [][NextPanel]_vars

(***************************************************************************)
(* Claims about the scaffolding export and the group, load and removal     *)
(* handlers                                                                *)
(***************************************************************************)
\* the scaffolding file of the present state
ScaffoldingFile == exportForScaffolding(referenceWorkspaces, originalData)

\* C31: the scaffolding file written holds, for every reference and every
\* group of its workspace, that group with its contigs and its createdOn
\* tag naming the reference, and it holds every modification of every
\* workspace.
C31_ScaffoldingExportIsComplete ==
    lastEvent.name = "exportForScaffolding" =>
        \A refName \in DOMAIN referenceWorkspaces :
            LET workspace == referenceWorkspaces[refName]
            IN  /\ \A g \in DOMAIN workspace.chromosomeGroups :
                      /\ g \in DOMAIN ScaffoldingFile.chromosomeGroups
                      /\ ScaffoldingFile.chromosomeGroups[g].createdOn = refName
                      /\ ScaffoldingFile.chromosomeGroups[g].contigs
                            = workspace.chromosomeGroups[g].contigs
                /\ \A i \in 1..Len(workspace.modifications) :
                      workspace.modifications[i] \in Range(ScaffoldingFile.modifications)

\* C32: a create-group gesture whose typed name, trimmed, is the name of a
\* group the workspace already holds changes nothing in any workspace: the
\* group keeps its contigs and no history entry is added.
C32_DuplicateGroupNameIsRejected ==
    [][(/\ lastEvent'.name = "handleCreateGroup"
        /\ Trim(lastEvent'.newGroupName) \in DOMAIN Workspace.chromosomeGroups)
          => referenceWorkspaces' = referenceWorkspaces]_vars

\* the modification list of the selected reference after the step
ModificationsAfter == getWorkspace(referenceWorkspaces', selectedRef).modifications

\* C34: a gesture that removes several modifications at once removes each
\* of them: after Clear all on a list of two or more the list is empty, and
\* after flipping back two or more inverted contigs of the selection none
\* of them has an inversion left.
C34_BatchRemovalRemovesEveryTarget ==
    [][/\ (lastEvent'.name = "clearAllModifications" /\ Len(Workspace.modifications) >= 2)
            => ModificationsAfter = <<>>
       /\ (/\ lastEvent'.name = "handleInvertContig"
           /\ Len(IndicesToRemove(Workspace.selectedContigs, Workspace.modifications)) >= 2)
            => \A contigName \in Range(Workspace.selectedContigs) :
                  ExistingInversion(Workspace.modifications, contigName) # -1
                     => ExistingInversion(ModificationsAfter, contigName) = -1]_vars

\* the place of a contig in the plot's contig order (calculateScales)
PlotPlace(d, contigOrder, contigName) ==
    LET sorted == SortByOrder(d.queries, contigOrder)
    IN  FirstOf({i \in 1..Len(sorted) : sorted[i].name = contigName})

\* the contig list of the render after the step
ContigListAfter ==
    LET workspace == getWorkspace(referenceWorkspaces', selectedRef)
    IN  getContigsForReference(data', selectedRef, workspace.contigOrder,
            allowedContigsSet(data', selectedRef, workspace.chromosomeGroups,
                              workspace.modifications, workspace.uninformativeContigs,
                              view'.settings))

\* C39: a move of the displayed contig at place i of the list, up or down.
\* At the first place (up) or the last (down) no workspace changes.
\* Otherwise the list after the move is the list with the contig and its
\* displayed neighbour swapped, every contig not displayed keeps its
\* contigOrder entry, and any two contigs other than the moved one are in
\* the same relative order in the plot's contig order as before.
C39_MoveSwapsDisplayedNeighbours ==
    [][lastEvent'.name = "handleMoveContig" =>
        LET contigName == lastEvent'.contigName
            i == FirstOf({k \in 1..Len(ContigList) : ContigList[k] = contigName})
            j == IF lastEvent'.direction = "up" THEN i - 1 ELSE i + 1
            orderAfter == getWorkspace(referenceWorkspaces', selectedRef).contigOrder
            others == {data.queries[k].name : k \in 1..Len(data.queries)} \ {contigName}
        IN  IF j < 1 \/ j > Len(ContigList)
            THEN referenceWorkspaces' = referenceWorkspaces
            ELSE /\ ContigListAfter = [ContigList EXCEPT ![i] = ContigList[j],
                                                         ![j] = ContigList[i]]
                 /\ \A hidden \in DOMAIN Workspace.contigOrder \ Range(ContigList) :
                       /\ hidden \in DOMAIN orderAfter
                       /\ orderAfter[hidden] = Workspace.contigOrder[hidden]
                 /\ \A a, b \in others :
                       PlotPlace(data, Workspace.contigOrder, a)
                          < PlotPlace(data, Workspace.contigOrder, b)
                       => PlotPlace(data', orderAfter, a) < PlotPlace(data', orderAfter, b)]_vars

\* C33: a load of a dataset that lacks its references, queries or
\* alignments collection reports an error and leaves the map of workspaces
\* as it was: no reference gains a workspace.
C33_BrokenDatasetCreatesNoWorkspace ==
    [][(/\ lastEvent'.name = "handleN50Proceed"
        /\ DOMAIN originalData' # {"references", "queries", "alignments"})
          => /\ lastEvent'.error
             /\ referenceWorkspaces' = referenceWorkspaces
             /\ DOMAIN referenceWorkspaces' = {}]_vars

\* a dataset without its queries was loaded from the load page: the error
\* is reported and no workspace exists
C33_Witness ==
    /\ lastEvent.name = "handleN50Proceed"
    /\ lastEvent.error
    /\ DOMAIN originalData = {"references", "alignments"}
    /\ referenceWorkspaces = EmptyMap

\* C36: Reset all leaves the workspace of the selected reference marked
\* saved, and a request for another reference made right after it switches
\* to that reference without opening the save dialog.
C36_ResetAllLeavesWorkspaceSaved ==
    [][/\ lastEvent'.name = "resetAllModifications"
            => getWorkspace(referenceWorkspaces', selectedRef).saved
       /\ (lastEvent.name = "resetAllModifications"
           /\ lastEvent'.name = "handleReferenceChange")
            => (~showSaveDialog' /\ selectedRef' # selectedRef)]_vars

\* C35: the working dataset shown is the original dataset with the
\* modification list of the selected reference's workspace, and no other,
\* applied in order (and the original dataset itself while that list is
\* empty), in every state, whichever references were shown before.
C35_WorkingDatasetFollowsSelectedWorkspace ==
    Loaded =>
        data = IF Len(Workspace.modifications) > 0
               THEN applyModificationsToVisualization(originalData,
                        Workspace.modifications, Workspace.contigOrder)
               ELSE originalData

\* chrB is shown after a switch away from chrA with chrA's edits saved:
\* chrA's workspace holds modifications that change the dataset, chrB's
\* holds none, and the dataset shown is the original one
C35_Witness ==
    /\ lastEvent.name = "save"
    /\ selectedRef = "chrB"
    /\ referenceWorkspaces["chrB"].modifications = <<>>
    /\ Len(referenceWorkspaces["chrA"].modifications) > 0
    /\ ApplyAll(originalData, referenceWorkspaces["chrA"].modifications) # originalData
    /\ data = originalData

\* C37: in a run whose list starts with Invert(q1), Break(q1, 2), once
\* these two rounds are done, the round Invert(q1_1) leaves every
\* alignment of the segment q1_1 with its query coordinates mirrored around
\* the segment's length 2: the new start is 2 minus the end the break left,
\* the new end 2 minus the start the break left, both within [0, 2].
C37_SegmentInversionMirrorsPostBreak ==
    (/\ dPos = 2
     /\ Len(dMods) >= 2
     /\ SubSeq(dMods, 1, 2) = << Invert(<<"q1">>), Break(<<"q1">>, 2) >>)
    => LET inverted == ApplyOne(dWork, Invert(<<"q1", "1">>))
       IN  \A i \in 1..Len(dWork.alignments) :
              dWork.alignments[i].query = <<"q1", "1">>
              => /\ inverted.alignments[i].queryStart = 2 - dWork.alignments[i].queryEnd
                 /\ inverted.alignments[i].queryEnd = 2 - dWork.alignments[i].queryStart
                 /\ inverted.alignments[i].queryStart >= 0
                 /\ inverted.alignments[i].queryEnd <= 2

\* C38: while the workspace of the selected reference holds a break of a
\* contig, each of the two segments q_1 and q_2 that has a unique alignment
\* to the selected reference is in the allowed set, whatever the size and
\* ratio thresholds and whether or not it is marked uninformative.
C38_SegmentsOfBreakAreAllowed ==
    (Loaded /\ selectedRef # "") =>
        \A i \in 1..Len(Workspace.modifications) :
            Workspace.modifications[i].type = "break" =>
                \A segment \in {Append(Workspace.modifications[i].query, "1"),
                                Append(Workspace.modifications[i].query, "2")} :
                    segment \in DOMAIN contigAlignmentsMap(data, selectedRef) =>
                        \A settings \in FilterSettings :
                            \A uninformativeContigs \in {{}, {segment}} :
                                segment \in allowedContigsSet(data, selectedRef,
                                                Workspace.chromosomeGroups,
                                                Workspace.modifications,
                                                uninformativeContigs, settings)

====
